---- MODULE Spec2Model ----
(***************************************************************************)
(* Model of the weather application's data layer:                          *)
(*   - computeForecastTemperatureStats (features/weather/api.ts)           *)
(*   - getWeatherSummary, getDailyForecast and getWeatherWithForecast      *)
(*     (features/weather/api.ts)                                           *)
(*   - geocode (features/geocode/api.ts), handleSearch and the SearchBar   *)
(*   - the records screen's handleCreate, handleList, handleUpdate and     *)
(*     handleDelete with autoFill, the chat route's create and update      *)
(*     tools, and the table they write                                     *)
(*   - the home screen's onSearch, handleSelect and handleCurrentLocation, *)
(*     and getUserLocation (features/currLocation/api.ts)                  *)
(*   - the chat route's POST handler and the useChatStream hook            *)
(*                                                                         *)
(* JavaScript values are tagged records: [k |-> "number", n, d] is the     *)
(* finite number n/d (d > 0, lowest terms); NaN, Infinity, -Infinity,      *)
(* undefined, null, strings and booleans carry their own tag.  Arithmetic  *)
(* on finite numbers is exact, except that a result whose magnitude        *)
(* exceeds MaxValue (the stand-in for Number.MAX_VALUE) overflows to       *)
(* +/-Infinity as an IEEE double does.  Rounding in the last place is not  *)
(* modelled.                                                               *)
(***************************************************************************)
EXTENDS Integers, Sequences, FiniteSets, TLC

VARIABLES
    extra,       \* keys of Constants.expoConfig.extra that hold a value
    net,         \* the network requests issued so far, in order
    input,       \* argument of the current computeForecastTemperatureStats call
    stats,       \* value returned by computeForecastTemperatureStats
    pc,          \* position of the direct caller of the aggregator
    fcDays,      \* the days argument of the getDailyForecast call
    fcPc,        \* position of the getDailyForecast call
    fcResponse,  \* HTTP response of the forecast request
    fcResult,    \* DailyForecast[] returned by getDailyForecast
    fcError,     \* message of the error getDailyForecast threw
    fcStats,     \* statistics computed from fcResult
    wsPc,        \* position of the getWeatherSummary call
    wsResponse,  \* HTTP response of the current-conditions request
    wsResult,    \* WeatherSummary returned by getWeatherSummary
    wsError,     \* message of the error getWeatherSummary threw
    geoQuery,    \* the query argument of the geocode call
    geoPc,       \* position of the geocode call
    geoResponse, \* HTTP response of the geocoding request
    geoResult,   \* GeocodeHit[] returned by geocode
    geoError,    \* message of the error geocode threw
    text,        \* SearchBar: the text state
    sbPc,        \* SearchBar: position of handleSubmit
    hsQuery,     \* the query argument of the handleSearch call
    hsPc,        \* position of the handleSearch call
    hsResult,    \* hits returned by handleSearch
    hsError,     \* message of the error handleSearch threw
    wfPc,        \* position of the getWeatherWithForecast call
    wfResult,    \* {current, forecast} returned by getWeatherWithForecast
    wfError,     \* message of the error getWeatherWithForecast threw
    location,    \* records screen: the location input
    startDate,   \* records screen: the start date input
    endDate,     \* records screen: the end date input
    targetId,    \* records screen: the record id input
    recomputeOnUpdate,  \* records screen: the recompute switch
    cards,       \* records screen: the rows shown as cards
    busy,        \* records screen: the busy flag
    alerted,     \* records screen: title of the last Alert.alert
    handler,     \* records screen: the handler that is running
    hPc,         \* records screen: position of that handler
    store,       \* the rows of the weather_requests table
    stPc,        \* position of the store request
    stReq,       \* the store request in flight
    stResp,      \* the {data, error} the store answered
    toolName,    \* chat route: the tool the model calls
    toolArgs,    \* chat route: the arguments of that call
    toolPc,      \* chat route: position of the tool's execute
    toolError,   \* chat route: message of the error execute threw
    loading,     \* home screen: the loading state
    error,       \* home screen: the error state
    results,     \* home screen: the results state
    searches,    \* home screen: the onSearch calls made so far
    pushed,      \* home screen: the router.push calls made so far
    alertShown,  \* home screen: message of the last alert(...)
    selPc,       \* home screen: position of handleSelect
    clPc,        \* home screen: position of handleCurrentLocation
    locPc,       \* position of the getUserLocation call
    locAsked,    \* the requests made to the device's location service
    permission,  \* the status the permission request answered with
    locResult,   \* {lat, lng} returned by getUserLocation
    locError,    \* message of the error getUserLocation threw
    postPc,      \* chat route: position of the POST handler
    postStatus,  \* chat route: status of the Response POST returned
    fullStream,  \* chat route: the values the model's stream yields
    readCount,   \* chat route: how many of them the handler has read
    byteStream,  \* chat route: the chunks enqueued on the response stream
    streamClosed,  \* chat route: whether the response stream was closed
    isStreaming, \* useChatStream: the isStreaming state
    response,    \* useChatStream: the response state
    smPc,        \* useChatStream: position of the sendMessage call
    undecoded,   \* useChatStream: bytes the TextDecoder holds back
    arrived      \* useChatStream: the chunks the reader has delivered

aggVars == <<input, stats, pc>>
fcVars == <<fcDays, fcPc, fcResponse, fcResult, fcError, fcStats>>
wsVars == <<wsPc, wsResponse, wsResult, wsError>>
geoVars == <<geoQuery, geoPc, geoResponse, geoResult, geoError>>
searchVars == <<text, sbPc, hsQuery, hsPc, hsResult, hsError>>
wfVars == <<wfPc, wfResult, wfError>>
formVars == <<location, startDate, endDate, targetId, recomputeOnUpdate>>
screenVars == <<cards, busy, alerted, handler, hPc>>
storeVars == <<store, stPc, stReq, stResp>>
toolVars == <<toolName, toolArgs, toolPc, toolError>>
recVars == <<formVars, screenVars, storeVars, toolVars>>
homeVars == <<loading, error, results, searches, pushed, alertShown, selPc, clPc>>
locVars == <<locPc, locAsked, permission, locResult, locError>>
routeVars == <<postPc, postStatus, fullStream, readCount, byteStream, streamClosed>>
hookVars == <<isStreaming, response, smPc, undecoded, arrived>>
chatVars == <<routeVars, hookVars>>
vars == <<extra, net, input, stats, pc, fcDays, fcPc, fcResponse, fcResult, fcError, fcStats,
          wsPc, wsResponse, wsResult, wsError,
          geoQuery, geoPc, geoResponse, geoResult, geoError,
          text, sbPc, hsQuery, hsPc, hsResult, hsError,
          wfPc, wfResult, wfError,
          location, startDate, endDate, targetId, recomputeOnUpdate, cards, busy,
          alerted, handler, hPc, store, stPc, stReq, stResp,
          toolName, toolArgs, toolPc, toolError,
          loading, error, results, searches, pushed, alertShown, selPc, clPc,
          locPc, locAsked, permission, locResult, locError,
          postPc, postStatus, fullStream, readCount, byteStream, streamClosed,
          isStreaming, response, smPc, undecoded, arrived>>

\* what the steps of one part of the program leave alone
othersOfAgg ==
    <<fcVars, wsVars, geoVars, searchVars, wfVars, recVars, homeVars, locVars, chatVars>>
othersOfFc ==
    <<aggVars, wsVars, geoVars, searchVars, wfVars, recVars, homeVars, locVars, chatVars>>
othersOfWs ==
    <<aggVars, fcVars, geoVars, searchVars, wfVars, recVars, homeVars, locVars, chatVars>>
othersOfGeo == <<aggVars, fcVars, wsVars, wfVars, recVars, homeVars, locVars, chatVars>>
othersOfAll == <<aggVars, geoVars, searchVars, recVars, homeVars, locVars, chatVars>>
othersOfRecords == <<aggVars, searchVars, homeVars, locVars, chatVars>>
othersOfHome == <<aggVars, geoVars, searchVars, recVars, chatVars>>
othersOfChat ==
    <<aggVars, fcVars, wsVars, geoVars, searchVars, wfVars, recVars, homeVars, locVars>>

\* ------------------------------------------------------------------ bounds
MaxValue == 100      \* largest finite magnitude (stand-in for Number.MAX_VALUE)
MaxLen == 2          \* longest forecast array drawn for a direct call
MaxOmitted == 3      \* most paths a drawn current-conditions payload omits
MaxDays == 2         \* largest day count a caller asks getDailyForecast for
MaxHits == 2         \* longest results list of a geocoding response
MaxQuery == 3        \* longest query string typed or passed
MaxSearches == 2     \* most searches submitted on the home screen
MaxChunks == 2       \* most values of a model stream, most chunks of a response

\* ------------------------------------------------------- JavaScript values
Undefined == [k |-> "undefined"]
Null == [k |-> "null"]
NaN == [k |-> "NaN"]
PosInf == [k |-> "Infinity"]
NegInf == [k |-> "-Infinity"]
Str(s) == [k |-> "string", s |-> s]
Bool(b) == [k |-> "boolean", b |-> b]

Abs(i) == IF i < 0 THEN -i ELSE i

RECURSIVE GCD(_, _)
GCD(a, b) == IF b = 0 THEN a ELSE GCD(b, a % b)

\* the finite number n/d in lowest terms (d > 0)
Ratio(n, d) ==
    LET g == GCD(Abs(n), d)
    IN  [k |-> "number", n |-> n \div g, d |-> d \div g]

Num(i) == Ratio(i, 1)

\* a double result: beyond the largest finite magnitude it is +/-Infinity
Overflow(n, d) ==
    IF n > MaxValue * d THEN PosInf
    ELSE IF n < -(MaxValue * d) THEN NegInf
    ELSE Ratio(n, d)

IsNumberType(v) == v.k \in {"number", "NaN", "Infinity", "-Infinity"}

\* Number.isFinite: true only for values of type number that are finite
NumberIsFinite(v) == v.k = "number"

\* v ?? fallback
Nullish(v) == v.k \in {"undefined", "null"}
Coalesce(v, fallback) == LET x == v IN IF Nullish(x) THEN fallback ELSE x

\* a + b on numbers (undefined converts to NaN)
JsAdd(a, b) ==
    IF ~IsNumberType(a) \/ ~IsNumberType(b) THEN NaN
    ELSE IF a.k = "NaN" \/ b.k = "NaN" THEN NaN
    ELSE IF a.k = "number" /\ b.k = "number"
         THEN Overflow(a.n * b.d + b.n * a.d, a.d * b.d)
    ELSE IF a.k = "number" THEN b
    ELSE IF b.k = "number" THEN a
    ELSE IF a.k = b.k THEN a
    ELSE NaN

\* a / m for a positive integer m
JsDivInt(a, m) ==
    IF ~IsNumberType(a) THEN NaN
    ELSE IF a.k = "number" THEN Ratio(a.n, a.d * m)
    ELSE a

\* a < b on numbers; any comparison with NaN or undefined is false
JsLt(a, b) ==
    IF ~IsNumberType(a) \/ ~IsNumberType(b) THEN FALSE
    ELSE IF a.k = "NaN" \/ b.k = "NaN" THEN FALSE
    ELSE IF a.k = "number" /\ b.k = "number" THEN a.n * b.d < b.n * a.d
    ELSE IF a.k = "-Infinity" THEN b.k # "-Infinity"
    ELSE IF b.k = "Infinity" THEN a.k # "Infinity"
    ELSE FALSE

JsGt(a, b) == JsLt(b, a)

\* objects and arrays of a parsed JSON payload
Obj(members) == [k |-> "object", m |-> members]
Arr(items) == [k |-> "array", items |-> items]
EmptyObj == Obj([name \in {} |-> Undefined])

\* o?.name: undefined when o is no object or has no such member
Get(o, name) ==
    IF o.k = "object" THEN (IF name \in DOMAIN o.m THEN o.m[name] ELSE Undefined)
    ELSE Undefined

\* o?.a?.b?.c for path = <<a, b, c>>
RECURSIVE Path(_, _)
Path(o, path) ==
    IF path = << >> THEN o ELSE Path(Get(o, Head(path)), Tail(path))

\* the truthiness test of if (...), !x and x ? a : b
Truthy(v) ==
    CASE v.k \in {"undefined", "null", "NaN"} -> FALSE
      [] v.k = "number" -> v.n # 0
      [] v.k = "string" -> v.s # ""
      [] v.k = "boolean" -> v.b
      [] OTHER -> TRUE

\* `${base}.png`
WithPng(base) == Str(base.s \o ".png")

JsLe(a, b) == JsLt(a, b) \/ (IsNumberType(a) /\ a.k # "NaN" /\ a = b)

\* --------------------------------------- computeForecastTemperatureStats
ForecastOfArrayOnly(in) == IF in.isArray THEN in.forecast ELSE << >>
\* const forecast = Array.isArray(input) ? input : input?.forecast ?? []
ForecastOf(in) ==
    IF in.isArray THEN in.forecast
    ELSE IF in.hasForecast THEN in.forecast
    ELSE << >>

\* the value returned for an empty forecast
EmptyStats ==
    [periodDays |-> 0, periodStartISO |-> Null, periodEndISO |-> Null,
     minTempC |-> Num(0), maxTempC |-> Num(0), avgTempC |-> Num(0)]

DayMaxRaw(day) == day.maxTempC
\* const dayMax = Number.isFinite(day.maxTempC) ? day.maxTempC : 0
DayMax(day) == IF NumberIsFinite(day.maxTempC) THEN day.maxTempC ELSE Num(0)

DayMinRaw(day) == day.minTempC
\* const dayMin = Number.isFinite(day.minTempC) ? day.minTempC : 0
DayMin(day) == IF NumberIsFinite(day.minTempC) THEN day.minTempC ELSE Num(0)

\* the running values before the loop
LoopStart == [maxTemp |-> NegInf, minTemp |-> PosInf, avgAccumulator |-> Num(0)]

LoopBodyMaxOnly(acc, day) ==
    [maxTemp |-> IF JsGt(DayMax(day), acc.maxTemp) THEN DayMax(day) ELSE acc.maxTemp,
     minTemp |-> IF JsLt(DayMin(day), acc.minTemp) THEN DayMin(day) ELSE acc.minTemp,
     avgAccumulator |-> JsAdd(acc.avgAccumulator, DayMax(day))]

LoopBodyNoHalf(acc, day) ==
    [maxTemp |-> IF JsGt(DayMax(day), acc.maxTemp) THEN DayMax(day) ELSE acc.maxTemp,
     minTemp |-> IF JsLt(DayMin(day), acc.minTemp) THEN DayMin(day) ELSE acc.minTemp,
     avgAccumulator |-> JsAdd(acc.avgAccumulator, JsAdd(DayMax(day), DayMin(day)))]

\* one iteration of the loop over the days
LoopBody(acc, day) ==
    LET dayMax == DayMax(day)
        dayMin == DayMin(day)
    IN  [maxTemp |-> IF JsGt(dayMax, acc.maxTemp) THEN dayMax ELSE acc.maxTemp,
         minTemp |-> IF JsLt(dayMin, acc.minTemp) THEN dayMin ELSE acc.minTemp,
         avgAccumulator |->
             JsAdd(acc.avgAccumulator, JsDivInt(JsAdd(dayMax, dayMin), 2))]

RECURSIVE Loop(_, _, _)
Loop(forecast, i, acc) ==
    IF i > Len(forecast) THEN acc
    ELSE Loop(forecast, i + 1, LoopBody(acc, forecast[i]))

FiniteOrZeroOff(v) == v
\* Number.isFinite(x) ? x : 0
FiniteOrZero(v) == IF NumberIsFinite(v) THEN v ELSE Num(0)

\* forecast[0]?.dateISO ?? null and forecast[forecast.length - 1]?.dateISO ?? null
PeriodStartISO(forecast) == Coalesce(forecast[1].dateISO, Null)
PeriodEndISOFirst(forecast) == Coalesce(forecast[1].dateISO, Null)
PeriodEndISO(forecast) == Coalesce(forecast[Len(forecast)].dateISO, Null)

computeForecastTemperatureStats(in) ==
    LET forecast == ForecastOf(in)
    IN  IF Len(forecast) = 0 THEN EmptyStats
        ELSE LET acc == Loop(forecast, 1, LoopStart)
                 avgTemp == JsDivInt(acc.avgAccumulator, Len(forecast))
             IN  [periodDays |-> Len(forecast),
                  periodStartISO |-> PeriodStartISO(forecast),
                  periodEndISO |-> PeriodEndISO(forecast),
                  minTempC |-> FiniteOrZero(acc.minTemp),
                  maxTempC |-> FiniteOrZero(acc.maxTemp),
                  avgTempC |-> FiniteOrZero(avgTemp)]

\* ------------------------------------------- inputs of the direct calls
Dates == {"2025-10-24", "2025-10-25", "2025-10-26"}

Temps == {Undefined, NaN, Num(-MaxValue), Num(5), Num(10), Num(20), Num(MaxValue)}

DaysOf(T, D) ==
    {[dateISO |-> Str(date), maxTempC |-> mx, minTempC |-> mn] :
        date \in D, mx \in T, mn \in T}

\* a bare DailyForecast[] (isArray), a {current, forecast} container, or a
\* container (or null) that has no forecast
ArrayInput(f) == [isArray |-> TRUE, hasForecast |-> FALSE, forecast |-> f]
ContainerInput(f) == [isArray |-> FALSE, hasForecast |-> TRUE, forecast |-> f]
NoForecastInput == [isArray |-> FALSE, hasForecast |-> FALSE, forecast |-> << >>]

NoStats == [periodDays |-> -1]

\* ------------------------------------------------------- getDailyForecast
\* const API_KEY = Constants.expoConfig?.extra?.GOOGLE_MAPS_API_KEY (weather api)
WeatherApiKey == IF "GOOGLE_MAPS_API_KEY" \in extra THEN Str("key") ELSE Undefined

MissingKeyError == "Missing GOOGLE_MAPS_API_KEY in app config."
NetworkErrorWithoutStatus(res) == "Network error"

NetworkError(res) == "Network error: " \o res.status \o " " \o res.statusText

\* the icon URL of a condition object: iconBaseUri + ".png", or ""
IconUrl(condition) ==
    IF Truthy(Get(condition, "iconBaseUri"))
    THEN WithPng(Get(condition, "iconBaseUri"))
    ELSE Str("")

toBlock(block) ==
    [description |-> Coalesce(Path(block, <<"weatherCondition", "description", "text">>),
                              Str("Unknown")),
     iconUrl |-> IconUrl(Get(block, "weatherCondition")),
     uvIndex |-> Coalesce(Get(block, "uvIndex"), Num(0)),
     precipPercent |-> Coalesce(Path(block, <<"precipitation", "probability", "percent">>),
                                Num(0)),
     windKph |-> Coalesce(Path(block, <<"wind", "speed", "value">>), Num(0)),
     windGustKph |-> Coalesce(Path(block, <<"wind", "gust", "value">>), Num(0)),
     windDirCardinal |-> Coalesce(Path(block, <<"wind", "direction", "cardinal">>),
                                  Str("UNKNOWN")),
     windDirDegrees |-> Coalesce(Path(block, <<"wind", "direction", "degrees">>), Num(0)),
     cloudCover |-> Coalesce(Get(block, "cloudCover"), Undefined),
     humidity |-> Coalesce(Get(block, "relativeHumidity"), Undefined)]

\* as ToDailyForecast, but a missing nighttime block falls back to the daytime one
ToDailyForecastNightFromDay(d) ==
    [dateISO |-> Coalesce(Path(d, <<"interval", "startTime">>), Str("")),
     displayDate |->
         [year |-> Coalesce(Path(d, <<"displayDate", "year">>), Num(0)),
          month |-> Coalesce(Path(d, <<"displayDate", "month">>), Num(0)),
          day |-> Coalesce(Path(d, <<"displayDate", "day">>), Num(0))],
     maxTempC |-> Coalesce(Path(d, <<"maxTemperature", "degrees">>), Num(0)),
     minTempC |-> Coalesce(Path(d, <<"minTemperature", "degrees">>), Num(0)),
     feelsLikeMaxC |-> Coalesce(Path(d, <<"feelsLikeMaxTemperature", "degrees">>), Undefined),
     feelsLikeMinC |-> Coalesce(Path(d, <<"feelsLikeMinTemperature", "degrees">>), Undefined),
     sunriseTime |-> Coalesce(Path(d, <<"sunEvents", "sunriseTime">>), Undefined),
     sunsetTime |-> Coalesce(Path(d, <<"sunEvents", "sunsetTime">>), Undefined),
     daytime |-> toBlock(Get(d, "daytimeForecast")),
     nighttime |-> toBlock(Coalesce(Get(d, "nighttimeForecast"), Get(d, "daytimeForecast")))]

\* the callback of (data?.forecastDays ?? []).map(...)
ToDailyForecast(d) ==
    [dateISO |-> Coalesce(Path(d, <<"interval", "startTime">>), Str("")),
     displayDate |->
         [year |-> Coalesce(Path(d, <<"displayDate", "year">>), Num(0)),
          month |-> Coalesce(Path(d, <<"displayDate", "month">>), Num(0)),
          day |-> Coalesce(Path(d, <<"displayDate", "day">>), Num(0))],
     maxTempC |-> Coalesce(Path(d, <<"maxTemperature", "degrees">>), Num(0)),
     minTempC |-> Coalesce(Path(d, <<"minTemperature", "degrees">>), Num(0)),
     feelsLikeMaxC |-> Coalesce(Path(d, <<"feelsLikeMaxTemperature", "degrees">>), Undefined),
     feelsLikeMinC |-> Coalesce(Path(d, <<"feelsLikeMinTemperature", "degrees">>), Undefined),
     sunriseTime |-> Coalesce(Path(d, <<"sunEvents", "sunriseTime">>), Undefined),
     sunsetTime |-> Coalesce(Path(d, <<"sunEvents", "sunsetTime">>), Undefined),
     daytime |-> toBlock(Get(d, "daytimeForecast")),
     nighttime |-> toBlock(Get(d, "nighttimeForecast"))]

\* ------------------------------------------------------ getWeatherSummary
InvalidResponseError == "Invalid response from Weather API"

PresenceCheckDataOnly(data) == ~Truthy(data)
\* if (!data || !data.weatherCondition)
PresenceCheckFails(data) == ~Truthy(data) \/ ~Truthy(Get(data, "weatherCondition"))

WindNoDefault(data) ==
    [directionDegrees |-> Path(data, <<"wind", "direction", "degrees">>),
     directionCardinal |-> Path(data, <<"wind", "direction", "cardinal">>),
     speedKph |-> Path(data, <<"wind", "speed", "value">>),
     gustKph |-> Path(data, <<"wind", "gust", "value">>)]
\* the wind member of the returned object
SummaryWind(data) ==
    [directionDegrees |-> Coalesce(Path(data, <<"wind", "direction", "degrees">>), Num(0)),
     directionCardinal |->
         Coalesce(Path(data, <<"wind", "direction", "cardinal">>), Str("UNKNOWN")),
     speedKph |-> Coalesce(Path(data, <<"wind", "speed", "value">>), Num(0)),
     gustKph |-> Coalesce(Path(data, <<"wind", "gust", "value">>), Num(0))]

\* the object getWeatherSummary returns for a body that passed the check
ToWeatherSummary(data) ==
    [currentTime |-> Get(data, "currentTime"),
     timeZone |-> Coalesce(Path(data, <<"timeZone", "id">>), Str("Unknown")),
     isDaytime |-> Bool(Truthy(Get(data, "isDaytime"))),
     weatherCondition |->
         [type |-> Coalesce(Path(data, <<"weatherCondition", "type">>), Str("UNKNOWN")),
          description |->
              Coalesce(Path(data, <<"weatherCondition", "description", "text">>),
                       Str("Unknown")),
          iconUrl |-> IconUrl(Get(data, "weatherCondition"))],
     temperatureC |-> Coalesce(Path(data, <<"temperature", "degrees">>), Num(0)),
     feelsLikeC |-> Coalesce(Path(data, <<"feelsLikeTemperature", "degrees">>), Num(0)),
     uvIndex |-> Coalesce(Get(data, "uvIndex"), Num(0)),
     wind |-> SummaryWind(data),
     thunderstormProbability |-> Coalesce(Get(data, "thunderstormProbability"), Num(0)),
     maxTempC |->
         Coalesce(Path(data, <<"currentConditionsHistory", "maxTemperature", "degrees">>),
                  Num(0)),
     minTempC |->
         Coalesce(Path(data, <<"currentConditionsHistory", "minTemperature", "degrees">>),
                  Num(0)),
     visibilityKm |-> Coalesce(Path(data, <<"visibility", "distance">>), Num(0))]

\* as NormalizeForecast, but cut to the day count the caller asked for
NormalizeForecastTruncated(data) ==
    LET days == Coalesce(Get(data, "forecastDays"), Arr(<< >>))
        n == IF Len(days.items) < fcDays THEN Len(days.items) ELSE fcDays
    IN  [i \in 1..n |-> ToDailyForecast(days.items[i])]

\* the array getDailyForecast returns for the parsed body data
NormalizeForecast(data) ==
    LET days == Coalesce(Get(data, "forecastDays"), Arr(<< >>))
    IN  [i \in 1..Len(days.items) |-> ToDailyForecast(days.items[i])]

\* ----------------------------------------- answers of the weather provider
ForecastDays == 5    \* days = 5, the day count the callers of the home screen request

\* no member when the provider omits the value
Member(name, v) == IF v = Undefined THEN [x \in {} |-> Undefined] ELSE (name :> v)

DayStart ==
    <<"2025-10-24T07:00:00Z", "2025-10-25T07:00:00Z", "2025-10-26T07:00:00Z",
      "2025-10-27T07:00:00Z", "2025-10-28T07:00:00Z", "2025-10-29T07:00:00Z">>

ProviderBlock(label) ==
    Obj([weatherCondition |->
             Obj([description |-> Obj([text |-> Str(label)]),
                  iconBaseUri |-> Str("https://maps.gstatic.com/weather/v1/sunny")]),
         uvIndex |-> Num(3),
         precipitation |-> Obj([probability |-> Obj([percent |-> Num(10)])]),
         wind |-> Obj([direction |-> Obj([degrees |-> Num(90), cardinal |-> Str("EAST")]),
                       speed |-> Obj([value |-> Num(8)]),
                       gust |-> Obj([value |-> Num(19)])]),
         cloudCover |-> Num(40),
         relativeHumidity |-> Num(55)])

Degrees(v) == IF v = Undefined THEN Undefined ELSE Obj([degrees |-> v])

\* entry i of forecastDays with the given maxTemperature and minTemperature
\* degrees (Undefined: the provider omits the temperature)
ProviderDay(i, mx, mn) ==
    Obj(Member("maxTemperature", Degrees(mx))
        @@ Member("minTemperature", Degrees(mn))
        @@ [interval |-> Obj([startTime |-> Str(DayStart[i])]),
            displayDate |-> Obj([year |-> Num(2025), month |-> Num(10), day |-> Num(23 + i)]),
            daytimeForecast |-> ProviderBlock("Sunny"),
            nighttimeForecast |-> ProviderBlock("Clear")])

\* <<maxTemperature.degrees, minTemperature.degrees>> of a provider day: an
\* ordinary day, a day of one temperature, a day with the maximum omitted,
\* one with the minimum omitted, and one whose minimum exceeds its maximum
ProviderTemps ==
    {<<Num(10), Num(5)>>, <<Num(5), Num(5)>>, <<Undefined, Num(5)>>,
     <<Num(10), Undefined>>, <<Num(5), Num(10)>>}

ForecastBody(temps) ==
    Obj([timeZone |-> Obj([id |-> Str("America/Los_Angeles")]),
         forecastDays |->
             Arr([i \in 1..Len(temps) |-> ProviderDay(i, temps[i][1], temps[i][2])])])

\* what the provider may put at daytimeForecast or nighttimeForecast:
\* the block, nothing (Undefined: the member is omitted) or null
BlockChoices(label) == {ProviderBlock(label), Undefined, Null}

\* entry of forecastDays for day i with the given sub-blocks
ProviderEntry(i, dayBlock, nightBlock) ==
    Obj(Member("daytimeForecast", dayBlock)
        @@ Member("nighttimeForecast", nightBlock)
        @@ [interval |-> Obj([startTime |-> Str(DayStart[i])]),
            displayDate |-> Obj([year |-> Num(2025), month |-> Num(10), day |-> Num(23 + i)]),
            maxTemperature |-> Obj([degrees |-> Num(10 + i)]),
            minTemperature |-> Obj([degrees |-> Num(i)]),
            sunEvents |-> Obj([sunriseTime |-> Str("2025-10-24T14:25:00Z"),
                               sunsetTime |-> Str("2025-10-25T01:20:00Z")])])

\* the entries the provider may list: two days in any order and number, each
\* with or without its sub-blocks, and null
ProviderEntries ==
    {ProviderEntry(i, dayBlock, nightBlock) :
        i \in 1..2,
        dayBlock \in {ProviderBlock("Sunny"), Undefined},
        nightBlock \in BlockChoices("Clear")}
    \cup {Null}

EntriesBody(entries) ==
    Obj([timeZone |-> Obj([id |-> Str("America/Los_Angeles")]),
         forecastDays |-> Arr(entries)])

\* a current-conditions body that holds every value
FullConditions ==
    Obj([currentTime |-> Str("2025-10-24T21:30:59Z"),
         timeZone |-> Obj([id |-> Str("America/Los_Angeles")]),
         isDaytime |-> Bool(TRUE),
         weatherCondition |->
             Obj([type |-> Str("MOSTLY_CLOUDY"),
                  description |-> Obj([text |-> Str("Mostly cloudy")]),
                  iconBaseUri |-> Str("https://maps.gstatic.com/weather/v1/mostly_cloudy")]),
         temperature |-> Obj([degrees |-> Num(18)]),
         feelsLikeTemperature |-> Obj([degrees |-> Num(17)]),
         uvIndex |-> Num(2),
         wind |-> Obj([direction |-> Obj([degrees |-> Num(325), cardinal |-> Str("NORTHWEST")]),
                       speed |-> Obj([value |-> Num(8)]),
                       gust |-> Obj([value |-> Num(19)])]),
         thunderstormProbability |-> Num(30),
         currentConditionsHistory |->
             Obj([maxTemperature |-> Obj([degrees |-> Num(19)]),
                  minTemperature |-> Obj([degrees |-> Num(11)])]),
         visibility |-> Obj([distance |-> Num(16)])])

\* the paths of a current-conditions body below the body itself, other than
\* weatherCondition
ConditionPaths ==
    {<<"currentTime">>, <<"timeZone">>, <<"timeZone", "id">>, <<"isDaytime">>,
     <<"weatherCondition", "type">>, <<"weatherCondition", "description">>,
     <<"weatherCondition", "description", "text">>, <<"weatherCondition", "iconBaseUri">>,
     <<"temperature">>, <<"temperature", "degrees">>,
     <<"feelsLikeTemperature">>, <<"feelsLikeTemperature", "degrees">>,
     <<"uvIndex">>,
     <<"wind">>, <<"wind", "direction">>, <<"wind", "direction", "degrees">>,
     <<"wind", "direction", "cardinal">>, <<"wind", "speed">>, <<"wind", "speed", "value">>,
     <<"wind", "gust">>, <<"wind", "gust", "value">>,
     <<"thunderstormProbability">>,
     <<"currentConditionsHistory">>, <<"currentConditionsHistory", "maxTemperature">>,
     <<"currentConditionsHistory", "maxTemperature", "degrees">>,
     <<"currentConditionsHistory", "minTemperature">>,
     <<"currentConditionsHistory", "minTemperature", "degrees">>,
     <<"visibility">>, <<"visibility", "distance">>}

\* the body o with the member at path removed (asNull: set to null instead)
RECURSIVE Without(_, _, _)
Without(o, path, asNull) ==
    IF o.k # "object" \/ Head(path) \notin DOMAIN o.m THEN o
    ELSE IF Len(path) = 1
         THEN IF asNull THEN Obj([o.m EXCEPT ![Head(path)] = Null])
              ELSE Obj([name \in DOMAIN o.m \ {Head(path)} |-> o.m[name]])
    ELSE Obj([o.m EXCEPT ![Head(path)] = Without(@, Tail(path), asNull)])

RECURSIVE WithoutAll(_, _, _)
WithoutAll(o, paths, asNull) ==
    IF paths = {} THEN o
    ELSE LET p == CHOOSE q \in paths : TRUE
         IN  WithoutAll(Without(o, p, asNull), paths \ {p}, asNull)

\* the subsets of S that have at most n elements
RECURSIVE SubsetsUpTo(_, _)
SubsetsUpTo(S, n) ==
    IF n = 0 THEN {{}}
    ELSE LET smaller == SubsetsUpTo(S, n - 1)
         IN  smaller \cup {ps \cup {p} : ps \in smaller, p \in S}

\* the bodies the provider may send with a success status
ConditionBodies ==
    {WithoutAll(FullConditions, omitted, asNull) :
        omitted \in SubsetsUpTo(ConditionPaths, MaxOmitted),
        asNull \in BOOLEAN}
    \cup {Obj([weatherCondition |-> EmptyObj]),
          Without(FullConditions, <<"weatherCondition">>, FALSE),
          Without(FullConditions, <<"weatherCondition">>, TRUE),
          EmptyObj, Null}

HttpOk(data) == [ok |-> TRUE, status |-> "200", statusText |-> "OK", data |-> data]
HttpFailure(status, statusText) ==
    [ok |-> FALSE, status |-> status, statusText |-> statusText, data |-> Undefined]
HttpFailures == {HttpFailure("403", "Forbidden"), HttpFailure("500", "Internal Server Error")}
NoResponse == [ok |-> FALSE, status |-> "", statusText |-> "", data |-> Undefined]

\* ---------------------------------------------------------------- actions
Configs == {{}, {"googleMapsApiKey"}, {"GOOGLE_MAPS_API_KEY"}}

NoHits == << >>

GeoIdle ==
    /\ geoQuery = << >>
    /\ geoPc = "off"
    /\ geoResponse = NoResponse
    /\ geoResult = NoHits
    /\ geoError = ""

NoWeather == [k |-> "none"]

AllIdle ==
    /\ wfPc = "off"
    /\ wfResult = NoWeather
    /\ wfError = ""

\* a settled promise waits for the reaction of the Promise.all that holds it:
\* the reaction is a microtask and runs before the next answer is delivered
AllSettling ==
    /\ wfPc = "awaiting"
    /\ \/ wsPc = "failed"
       \/ fcPc = "failed"
       \/ wsPc = "returned" /\ fcPc = "returned"

\* the table before the operation: two stored records
StoredParis ==
    [id |-> 1, location_name |-> Str("Paris, France"),
     location_lat |-> Ratio(9771, 200), location_lng |-> Ratio(47, 20),
     start_date |-> "2025-10-24", end_date |-> "2025-10-26",
     avg_temp_c |-> Num(12), min_temp_c |-> Num(8), max_temp_c |-> Num(16),
     updated_at |-> "2025-10-20T08:00:00.000Z"]

StoredOslo ==
    [id |-> 2, location_name |-> Str("Oslo, Norway"),
     location_lat |-> Ratio(5991, 100), location_lng |-> Ratio(43, 4),
     start_date |-> "2025-10-24", end_date |-> "2025-10-24",
     avg_temp_c |-> Num(4), min_temp_c |-> Num(1), max_temp_c |-> Num(7),
     updated_at |-> "2025-10-21T08:00:00.000Z"]

InitialRows == <<StoredParis, StoredOslo>>

NoRequest == [op |-> "none"]
NoAnswer == [error |-> "none"]
NoArgs == [k |-> "none"]

StoreAtRest ==
    /\ store = InitialRows
    /\ stPc = "idle"
    /\ stReq = NoRequest
    /\ stResp = NoAnswer

ScreenIdle ==
    /\ location = << >>
    /\ startDate = ""
    /\ endDate = ""
    /\ targetId = ""
    /\ recomputeOnUpdate = TRUE
    /\ cards = << >>
    /\ busy = FALSE
    /\ alerted = [title |-> "", message |-> ""]
    /\ handler = "none"
    /\ hPc = "off"

ToolIdle ==
    /\ toolName = "none"
    /\ toolArgs = NoArgs
    /\ toolPc = "off"
    /\ toolError = ""

RecordsIdle ==
    /\ StoreAtRest
    /\ ScreenIdle
    /\ ToolIdle

NoPosition == [k |-> "none"]

HomeIdle ==
    /\ loading = FALSE
    /\ error = Null
    /\ results = << >>
    /\ searches = << >>
    /\ pushed = << >>
    /\ alertShown = ""
    /\ selPc = "off"
    /\ clPc = "off"
    /\ locPc = "off"
    /\ locAsked = << >>
    /\ permission = ""
    /\ locResult = NoPosition
    /\ locError = ""

RouteIdle ==
    /\ postPc = "off"
    /\ postStatus = ""
    /\ fullStream = << >>
    /\ readCount = 0
    /\ byteStream = << >>
    /\ streamClosed = FALSE

HookIdle ==
    /\ isStreaming = FALSE
    /\ response = ""
    /\ smPc = "off"
    /\ undecoded = << >>
    /\ arrived = << >>

UiIdle ==
    /\ HomeIdle
    /\ RouteIdle
    /\ HookIdle

SearchIdle ==
    /\ text = << >>
    /\ sbPc = "off"
    /\ hsQuery = << >>
    /\ hsPc = "off"
    /\ hsResult = NoHits
    /\ hsError = ""

InitAgg(T, D, n) ==
    /\ \E len \in 0..n : \E f \in [1..len -> DaysOf(T, D)] :
          input \in {ArrayInput(f), ContainerInput(f), NoForecastInput}
    /\ stats = NoStats
    /\ pc = "ready"

FcIdle ==
    /\ fcDays = ForecastDays
    /\ fcPc = "off"
    /\ fcResponse = NoResponse
    /\ fcResult = << >>
    /\ fcError = ""
    /\ fcStats = NoStats

NoSummary == [k |-> "none"]

WsIdle ==
    /\ wsPc = "off"
    /\ wsResponse = NoResponse
    /\ wsResult = NoSummary
    /\ wsError = ""

\* getWeatherSummary up to its await fetch(url)
CallGetWeatherSummary ==
    /\ wsPc = "idle"
    /\ IF ~Truthy(WeatherApiKey)
       THEN wsPc' = "failed" /\ wsError' = MissingKeyError /\ net' = net
       ELSE wsPc' = "fetching" /\ wsError' = wsError
            /\ net' = Append(net, "currentConditions")
    /\ UNCHANGED <<wsResponse, wsResult, extra>>
    /\ UNCHANGED othersOfWs

\* the provider answers the current-conditions request
SummaryResponds ==
    /\ wsPc = "fetching"
    /\ \/ \E body \in ConditionBodies : wsResponse' = HttpOk(body)
       \/ wsResponse' \in HttpFailures
    /\ wsPc' = "responded"
    /\ UNCHANGED <<wsResult, wsError, extra, net>>
    /\ UNCHANGED othersOfWs

\* getWeatherSummary from the answer of fetch to its return
ResumeGetWeatherSummary ==
    /\ wsPc = "responded"
    /\ ~AllSettling
    /\ IF ~wsResponse.ok
       THEN /\ wsPc' = "failed"
            /\ wsError' = NetworkError(wsResponse)
            /\ wsResult' = wsResult
       ELSE IF PresenceCheckFails(wsResponse.data)
       THEN /\ wsPc' = "failed"
            /\ wsError' = InvalidResponseError
            /\ wsResult' = wsResult
       ELSE /\ wsPc' = "returned"
            /\ wsResult' = ToWeatherSummary(wsResponse.data)
            /\ wsError' = wsError
    /\ UNCHANGED <<wsResponse, extra, net>>
    /\ UNCHANGED othersOfWs

AggIdle ==
    /\ input = NoForecastInput
    /\ stats = NoStats
    /\ pc = "off"

\* getDailyForecast up to its await fetch(url)
CallGetDailyForecast ==
    /\ fcPc = "idle"
    /\ IF ~Truthy(WeatherApiKey)
       THEN fcPc' = "failed" /\ fcError' = MissingKeyError /\ net' = net
       ELSE fcPc' = "fetching" /\ fcError' = fcError
            /\ net' = Append(net, "forecast")
    /\ UNCHANGED <<fcDays, fcResponse, fcResult, fcStats, extra>>
    /\ UNCHANGED othersOfFc

\* the provider answers the forecast request
ForecastResponds ==
    /\ fcPc = "fetching"
    /\ \/ \E len \in 0..ForecastDays :
            \E temps \in [1..len -> ProviderTemps] :
                fcResponse' = HttpOk(ForecastBody(temps))
       \/ fcResponse' = HttpOk(EmptyObj)
       \/ fcResponse' \in HttpFailures
    /\ fcPc' = "responded"
    /\ UNCHANGED <<fcDays, fcResult, fcError, fcStats, extra, net>>
    /\ UNCHANGED othersOfFc

\* the provider answers the forecast request with entries in any order, and
\* with fewer or more entries than the request asked for
EntriesRespond ==
    /\ fcPc = "fetching"
    /\ \/ \E len \in 0..(fcDays + 1) :
            \E entries \in [1..len -> ProviderEntries] :
                fcResponse' = HttpOk(EntriesBody(entries))
       \/ fcResponse' \in {HttpOk(EmptyObj), HttpOk(Null),
                            HttpOk(Obj([forecastDays |-> Null]))}
       \/ fcResponse' \in HttpFailures
    /\ fcPc' = "responded"
    /\ UNCHANGED <<fcDays, fcResult, fcError, fcStats, extra, net>>
    /\ UNCHANGED othersOfFc

\* getDailyForecast from the answer of fetch to its return
ResumeGetDailyForecast ==
    /\ fcPc = "responded"
    /\ ~AllSettling
    /\ IF ~fcResponse.ok
       THEN /\ fcPc' = "failed"
            /\ fcError' = NetworkError(fcResponse)
            /\ fcResult' = fcResult
       ELSE /\ fcPc' = "returned"
            /\ fcResult' = NormalizeForecast(fcResponse.data)
            /\ fcError' = fcError
    /\ UNCHANGED <<fcDays, fcResponse, fcStats, extra, net>>
    /\ UNCHANGED othersOfFc

\* computeForecastTemperatureStats on the {current, forecast} the fetch gave
AggregateForecast ==
    /\ fcPc = "returned"
    /\ fcStats' = computeForecastTemperatureStats(ContainerInput(fcResult))
    /\ fcPc' = "aggregated"
    /\ UNCHANGED <<fcDays, fcResponse, fcResult, fcError, extra, net>>
    /\ UNCHANGED othersOfFc

\* a caller evaluates computeForecastTemperatureStats(input)
CallCompute ==
    /\ pc = "ready"
    /\ stats' = computeForecastTemperatureStats(input)
    /\ pc' = "returned"
    /\ UNCHANGED <<input, extra, net>>
    /\ UNCHANGED othersOfAgg

\* ------------------------------------------------ getWeatherWithForecast
\* the answers drawn when a fetch is one step of a longer operation
BriefConditionBodies == {FullConditions, Obj([weatherCondition |-> EmptyObj]), EmptyObj}
BriefTemps == {<<Num(10), Num(5)>>, <<Undefined, Num(5)>>}

\* the provider answers the current-conditions request
SummaryRespondsBriefly ==
    /\ wsPc = "fetching"
    /\ ~AllSettling
    /\ \/ \E body \in BriefConditionBodies : wsResponse' = HttpOk(body)
       \/ wsResponse' \in HttpFailures
    /\ wsPc' = "responded"
    /\ UNCHANGED <<wsResult, wsError, extra, net>>
    /\ UNCHANGED othersOfWs

\* the provider answers the forecast request
ForecastRespondsBriefly ==
    /\ fcPc = "fetching"
    /\ ~AllSettling
    /\ \/ \E len \in 0..MaxDays :
            \E temps \in [1..len -> BriefTemps] :
                fcResponse' = HttpOk(ForecastBody(temps))
       \/ fcResponse' \in HttpFailures
    /\ fcPc' = "responded"
    /\ UNCHANGED <<fcDays, fcResult, fcError, fcStats, extra, net>>
    /\ UNCHANGED othersOfFc

\* getWeatherWithForecast up to its await: Promise.all([getWeatherSummary(..),
\* getDailyForecast(..)]) runs each call up to its own await fetch(url), the
\* current-conditions call first
StartGetWeatherWithForecast ==
    /\ wfPc' = "awaiting"
    /\ IF ~Truthy(WeatherApiKey)
       THEN /\ wsPc' = "failed" /\ wsError' = MissingKeyError
            /\ fcPc' = "failed" /\ fcError' = MissingKeyError
            /\ net' = net
       ELSE /\ wsPc' = "fetching" /\ wsError' = wsError
            /\ fcPc' = "fetching" /\ fcError' = fcError
            /\ net' = net \o <<"currentConditions", "forecast">>
    /\ UNCHANGED <<wsResponse, wsResult, fcResponse, fcResult, fcStats>>
    /\ UNCHANGED <<wfResult, wfError>>

CallGetWeatherWithForecast ==
    /\ wfPc = "idle"
    /\ wsPc = "idle"
    /\ fcPc = "idle"
    /\ StartGetWeatherWithForecast
    /\ UNCHANGED <<fcDays, extra>>
    /\ UNCHANGED othersOfAll

\* as SettleGetWeatherWithForecast, but returns what has arrived once the
\* current conditions are there
SettleWithPartialResult ==
    /\ wfPc = "awaiting"
    /\ wsPc = "returned"
    /\ wfPc' = "returned"
    /\ wfResult' = [current |-> wsResult, forecast |-> fcResult]
    /\ wfError' = wfError
    /\ UNCHANGED <<extra, net>>
    /\ UNCHANGED <<fcVars, wsVars>>
    /\ UNCHANGED othersOfAll

\* the await of getWeatherWithForecast ends: Promise.all rejects with the
\* first rejection and fulfils when both calls have returned
SettleGetWeatherWithForecast ==
    /\ AllSettling
    /\ IF wsPc = "failed"
       THEN wfPc' = "failed" /\ wfError' = wsError /\ wfResult' = wfResult
       ELSE IF fcPc = "failed"
       THEN wfPc' = "failed" /\ wfError' = fcError /\ wfResult' = wfResult
       ELSE /\ wfPc' = "returned"
            /\ wfResult' = [current |-> wsResult, forecast |-> fcResult]
            /\ wfError' = wfError
    /\ UNCHANGED <<extra, net>>
    /\ UNCHANGED <<fcVars, wsVars>>
    /\ UNCHANGED othersOfAll

\* ---------------------------------------------------------------- geocode
\* const API_KEY = Constants.expoConfig?.extra?.googleMapsApiKey (geocode api)
GeocodeApiKey == IF "googleMapsApiKey" \in extra THEN Str("key") ELSE Undefined

\* a || b
JsOr(a, b) == IF Truthy(a) THEN a ELSE b

GeocodeFailureMessageStatusFirst(data) ==
    JsOr(JsOr(Get(data, "status"), Get(data, "error_message")), Str("Geocoding failed"))
\* data.error_message || data.status || "Geocoding failed"
GeocodeFailureMessage(data) ==
    JsOr(JsOr(Get(data, "error_message"), Get(data, "status")), Str("Geocoding failed"))

\* r.geometry.location of a result entry can be read
HasLocation(r) == Path(r, <<"geometry", "location">>).k = "object"

\* data.results.map(...) throws a TypeError: results is no array, or an entry
\* has no geometry.location
MapThrows(data) ==
    \/ Get(data, "results").k # "array"
    \/ \E i \in 1..Len(Get(data, "results").items) :
          ~HasLocation(Get(data, "results").items[i])

TypeErrorMessage == "TypeError"

\* the callback of data.results.map(...)
ToGeocodeHit(r) ==
    [formatted_address |-> Get(r, "formatted_address"),
     place_id |-> Get(r, "place_id"),
     location |-> [lat |-> Path(r, <<"geometry", "location", "lat">>),
                   lng |-> Path(r, <<"geometry", "location", "lng">>)]]

\* as ToGeocodeHits, but an entry whose place_id was seen before is dropped
RECURSIVE Deduplicated(_)
Deduplicated(items) ==
    IF items = << >> THEN << >>
    ELSE LET front == Deduplicated(SubSeq(items, 1, Len(items) - 1))
             last == items[Len(items)]
         IN  IF \E i \in 1..Len(front) : front[i].place_id = ToGeocodeHit(last).place_id
             THEN front
             ELSE Append(front, ToGeocodeHit(last))
ToGeocodeHitsDeduplicated(data) == Deduplicated(Get(data, "results").items)

\* data.results.map(...)
ToGeocodeHits(data) ==
    LET items == Get(data, "results").items
    IN  [i \in 1..Len(items) |-> ToGeocodeHit(items[i])]

\* ----------------------------------------------- answers of the geocoder
GeocodeStatuses ==
    {"OK", "ZERO_RESULTS", "OVER_QUERY_LIMIT", "REQUEST_DENIED", "INVALID_REQUEST",
     "UNKNOWN_ERROR"}

\* error_message: omitted, or the provider's text
ErrorMessages == {Undefined, Str("quota")}

ParisFrance ==
    Obj([formatted_address |-> Str("Paris, France"),
         place_id |-> Str("ChIJD7fiBh9u5kcRYJSMaMOCCwQ"),
         geometry |-> Obj([location |-> Obj([lat |-> Ratio(9771, 200),
                                             lng |-> Ratio(47, 20)]),
                           location_type |-> Str("APPROXIMATE")]),
         types |-> Arr(<<Str("locality"), Str("political")>>)])

ParisTexas ==
    Obj([formatted_address |-> Str("Paris, TX 75460, USA"),
         place_id |-> Str("ChIJmysnFgZYSoYRSfPTL2YJuck"),
         geometry |-> Obj([location |-> Obj([lat |-> Ratio(3366, 100),
                                             lng |-> Ratio(-9555, 100)]),
                           location_type |-> Str("APPROXIMATE")]),
         types |-> Arr(<<Str("locality"), Str("political")>>)])

ResultEntries == {ParisFrance, ParisTexas}

GeocodeBody(status, message, entries) ==
    Obj(Member("error_message", message)
        @@ [status |-> Str(status), results |-> Arr(entries)])

\* ------------------------------------------------------ query strings
Whitespace == {" "}
Chars == {" ", "p"}

\* the strings of at most n characters, as sequences of characters
StringsUpTo(n) == UNION {[1..len -> Chars] : len \in 0..n}

RECURSIVE TrimStart(_)
TrimStart(str) ==
    IF str # << >> /\ Head(str) \in Whitespace THEN TrimStart(Tail(str)) ELSE str

RECURSIVE TrimEnd(_)
TrimEnd(str) ==
    IF str # << >> /\ str[Len(str)] \in Whitespace
    THEN TrimEnd(SubSeq(str, 1, Len(str) - 1))
    ELSE str

\* String.prototype.trim
Trim(str) == TrimEnd(TrimStart(str))

EmptyQueryError == "Search query cannot be empty."
NoResultsError == "No results found."

\* ------------------------------------------------------- geocode: steps
StartGeocodeFetchFirst(q) ==
    /\ geoQuery' = q
    /\ net' = Append(net, "geocode")
    /\ IF ~Truthy(GeocodeApiKey)
       THEN geoPc' = "failed" /\ geoError' = MissingKeyError
       ELSE geoPc' = "fetching" /\ geoError' = geoError
    /\ UNCHANGED <<geoResponse, geoResult>>

\* geocode(q) up to its await fetch(url)
StartGeocode(q) ==
    /\ geoQuery' = q
    /\ IF ~Truthy(GeocodeApiKey)
       THEN geoPc' = "failed" /\ geoError' = MissingKeyError /\ net' = net
       ELSE geoPc' = "fetching" /\ geoError' = geoError
            /\ net' = Append(net, "geocode")
    /\ UNCHANGED <<geoResponse, geoResult>>

\* a caller other than handleSearch evaluates geocode(geoQuery)
CallGeocode ==
    /\ geoPc = "idle"
    /\ hsPc = "off"
    /\ StartGeocode(geoQuery)
    /\ UNCHANGED extra
    /\ UNCHANGED searchVars
    /\ UNCHANGED othersOfGeo

\* the geocoder answers the request
GeocodeResponds ==
    /\ geoPc = "fetching"
    /\ \/ \E status \in GeocodeStatuses, message \in ErrorMessages :
            \E len \in 0..MaxHits :
                \E entries \in [1..len -> ResultEntries] :
                    geoResponse' = HttpOk(GeocodeBody(status, message, entries))
       \/ geoResponse' \in HttpFailures
    /\ geoPc' = "responded"
    /\ UNCHANGED <<geoQuery, geoResult, geoError, extra, net>>
    /\ UNCHANGED searchVars
    /\ UNCHANGED othersOfGeo

\* geocode from the answer of fetch to its return
ResumeGeocode ==
    /\ geoPc = "responded"
    /\ IF ~geoResponse.ok
       THEN /\ geoPc' = "failed"
            /\ geoError' = NetworkError(geoResponse)
            /\ geoResult' = geoResult
       ELSE IF Get(geoResponse.data, "status") # Str("OK")
       THEN /\ geoPc' = "failed"
            /\ geoError' = GeocodeFailureMessage(geoResponse.data).s
            /\ geoResult' = geoResult
       ELSE IF MapThrows(geoResponse.data)
       THEN /\ geoPc' = "failed"
            /\ geoError' = TypeErrorMessage
            /\ geoResult' = geoResult
       ELSE /\ geoPc' = "returned"
            /\ geoResult' = ToGeocodeHits(geoResponse.data)
            /\ geoError' = geoError
    /\ UNCHANGED <<geoQuery, geoResponse, extra, net>>
    /\ UNCHANGED searchVars
    /\ UNCHANGED othersOfGeo

\* -------------------------------------------- handleSearch and SearchBar
StartHandleSearchUnchecked(q) ==
    /\ hsQuery' = q
    /\ hsPc' = "awaiting" /\ hsError' = hsError /\ StartGeocode(q)
    /\ hsResult' = hsResult

\* handleSearch(q) up to its await geocode(query)
StartHandleSearch(q) ==
    /\ hsQuery' = q
    /\ IF Trim(q) = << >>
       THEN /\ hsPc' = "failed" /\ hsError' = EmptyQueryError
            /\ UNCHANGED geoVars
            /\ net' = net
       ELSE /\ hsPc' = "awaiting" /\ hsError' = hsError
            /\ StartGeocode(q)
    /\ hsResult' = hsResult

\* a caller other than the search bar evaluates handleSearch(hsQuery)
CallHandleSearch ==
    /\ hsPc = "idle"
    /\ sbPc = "off"
    /\ StartHandleSearch(hsQuery)
    /\ UNCHANGED <<text, sbPc, extra>>
    /\ UNCHANGED othersOfGeo

\* SearchBar.handleSubmit, with the home screen's onSearch as its callback
HandleSubmit ==
    /\ sbPc = "idle"
    /\ hsPc = "idle"
    /\ IF Len(Trim(text)) > 0
       THEN /\ sbPc' = "submitted"
            /\ StartHandleSearch(Trim(text))
       ELSE /\ sbPc' = "ignored"
            /\ UNCHANGED <<hsQuery, hsPc, hsResult, hsError, net>>
            /\ UNCHANGED geoVars
    /\ UNCHANGED <<text, extra>>
    /\ UNCHANGED othersOfGeo

\* handleSearch from the settling of geocode to its return
ResumeHandleSearch ==
    /\ hsPc = "awaiting"
    /\ geoPc \in {"returned", "failed"}
    /\ IF geoPc = "failed"
       THEN hsPc' = "failed" /\ hsError' = geoError /\ hsResult' = hsResult
       ELSE IF Len(geoResult) = 0
       THEN hsPc' = "failed" /\ hsError' = NoResultsError /\ hsResult' = hsResult
       ELSE hsPc' = "returned" /\ hsResult' = geoResult /\ hsError' = hsError
    /\ UNCHANGED <<text, sbPc, hsQuery, extra, net>>
    /\ UNCHANGED geoVars
    /\ UNCHANGED othersOfGeo

\* ----------------------------------------------------------- date strings
\* the strings typed into a date input or passed as start_date / end_date
DateStrings == {"", "2025-10-24", "2025-10-26", "2025-11-10", "soon"}

\* days from 1970-01-01 to the date a date-only string names
EpochDay ==
    ("2025-10-24" :> 20385) @@ ("2025-10-26" :> 20387) @@ ("2025-11-10" :> 20402)

\* new Date(str).getTime(), in days: a date-only string is midnight UTC of its
\* day, a whole multiple of 1000 * 60 * 60 * 24 ms; any other string here is
\* an Invalid Date, whose time is NaN
GetTime(str) == IF str \in DOMAIN EpochDay THEN Num(EpochDay[str]) ELSE NaN

\* new Date(a) > new Date(b)
DateAfter(a, b) == JsGt(GetTime(a), GetTime(b))

\* daysBetween(startISO, endISO)
daysBetween(startISO, endISO) ==
    LET from == GetTime(startISO)
        to == GetTime(endISO)
    IN  IF from.k = "NaN" \/ to.k = "NaN" THEN NaN
        ELSE Num((IF to.n > from.n THEN to.n - from.n ELSE 0) + 1)

\* Math.min(10, Math.max(1, daysBetween(s, e)))
TotalDays(s, e) ==
    LET days == daysBetween(s, e)
    IN  IF days.k = "NaN" THEN NaN
        ELSE IF days.n < 1 THEN Num(1)
        ELSE IF days.n > 10 THEN Num(10)
        ELSE days

\* +x.toFixed(2) of a finite number: two decimals, halves away from zero
ToFixed2(x) ==
    LET hundredths == (2 * 100 * Abs(x.n) + x.d) \div (2 * x.d)
    IN  Ratio(IF x.n < 0 THEN -hundredths ELSE hundredths, 100)

RECURSIVE Concat(_)
Concat(chars) == IF chars = << >> THEN "" ELSE Head(chars) \o Concat(Tail(chars))

\* the string value of a text input
StrOf(chars) == Str(Concat(chars))

\* Number(targetId)
NumberOf(str) ==
    CASE str = "" -> Num(0)
      [] str = "1" -> Num(1)
      [] OTHER -> NaN

\* ------------------------------------------------------------- the store
UpdatedAt == "2025-10-24T21:31:00.000Z"    \* new Date().toISOString()

\* the row with the members of updates written over it
Merge(row, updates) ==
    [f \in DOMAIN row \cup DOMAIN updates |->
        IF f \in DOMAIN updates THEN updates[f] ELSE row[f]]

Matches(id) == {i \in 1..Len(store) : Num(store[i].id) = id}

InsertRequest(entry, single) == [op |-> "insert", entry |-> entry, single |-> single]
UpdateRequest(id, updates, single) ==
    [op |-> "update", id |-> id, single |-> single,
     updates |-> Merge(updates, [updated_at |-> UpdatedAt])]

DeleteRequest(id) == [op |-> "delete", id |-> id]
ListRequest == [op |-> "select"]

\* the rows in the order .order("created_at", {ascending: false}) gives them:
\* the table keeps its rows in the order they were created
RECURSIVE NewestFirst(_)
NewestFirst(rows) ==
    IF rows = << >> THEN << >> ELSE Append(NewestFirst(Tail(rows)), Head(rows))

StoreError(message) == [error |-> message, data |-> Null]
StoreData(data) == [error |-> "", data |-> data]

\* supabase.from("weather_requests") ... issued
SendToStore(request) ==
    /\ stPc' = "pending"
    /\ stReq' = request
    /\ net' = Append(net, "store")
    /\ UNCHANGED <<store, stResp>>

\* the store carries the request out, or refuses it
StoreResponds ==
    /\ stPc = "pending"
    /\ \/ /\ stResp' = StoreError("store error")
          /\ store' = store
       \/ /\ stReq.op = "insert"
          /\ LET row == Merge(stReq.entry, [id |-> Len(store) + 1])
             IN  /\ store' = Append(store, row)
                 /\ stResp' = StoreData(IF stReq.single THEN row ELSE <<row>>)
       \/ /\ stReq.op = "update"
          /\ store' = [i \in 1..Len(store) |->
                          IF i \in Matches(stReq.id)
                          THEN Merge(store[i], stReq.updates) ELSE store[i]]
          /\ LET rows == [i \in 1..Len(store) |-> Merge(store[i], stReq.updates)]
                 hit == Matches(stReq.id)
             IN  IF ~stReq.single
                 THEN stResp' = StoreData(IF hit = {} THEN << >>
                                          ELSE <<rows[CHOOSE i \in hit : TRUE]>>)
                 ELSE IF hit = {}
                 THEN stResp' = StoreError("JSON object requested, multiple (or no) rows returned")
                 ELSE stResp' = StoreData(rows[CHOOSE i \in hit : TRUE])
       \/ /\ stReq.op = "delete"
          /\ store' = SelectSeq(store, LAMBDA row : Num(row.id) # stReq.id)
          /\ stResp' = StoreData(Null)
       \/ /\ stReq.op = "select"
          /\ store' = store
          /\ stResp' = StoreData(Arr(NewestFirst(store)))
    /\ stPc' = "answered"
    /\ UNCHANGED <<stReq, extra, net>>
    /\ UNCHANGED <<formVars, screenVars, toolVars>>
    /\ UNCHANGED <<geoVars, fcVars, wsVars, wfVars>>
    /\ UNCHANGED othersOfRecords

\* -------------------------------------------------------- records screen
Locations == {<< >>, <<" ">>, <<"p">>}
TargetIds == {"", "1", "x"}

NoAlert == [title |-> "", message |-> ""]
Alert(title, message) == [title |-> title, message |-> message]

\* the geocoder answers a lookup made for a record
GeocodeRespondsBriefly ==
    /\ geoPc = "fetching"
    /\ geoResponse' \in {HttpOk(GeocodeBody("OK", Undefined, <<ParisFrance>>)),
                        HttpOk(GeocodeBody("OK", Undefined, << >>)),
                        HttpOk(GeocodeBody("ZERO_RESULTS", Undefined, << >>)),
                        HttpFailure("403", "Forbidden")}
    /\ geoPc' = "responded"
    /\ UNCHANGED <<geoQuery, geoResult, geoError, extra, net>>
    /\ UNCHANGED searchVars
    /\ UNCHANGED othersOfGeo

\* catch (e) { Alert.alert("... failed", e.message) } finally { setBusy(false) }
FailureTitle ==
    CASE handler = "create" -> "Create failed"
      [] handler = "list" -> "List failed"
      [] handler = "update" -> "Update failed"
      [] handler = "delete" -> "Delete failed"

\* as HandlerFails, without the finally block
HandlerFailsStillBusy(message) ==
    /\ alerted' = Alert(FailureTitle, message)
    /\ hPc' = "done"
    /\ UNCHANGED <<cards, handler, busy>>

HandlerFails(message) ==
    /\ alerted' = Alert(FailureTitle, message)
    /\ busy' = FALSE
    /\ hPc' = "done"
    /\ UNCHANGED <<cards, handler>>

\* the validation of handleCreate
MissingFields == location = << >> \/ startDate = "" \/ endDate = ""

CreateIsValid == ~MissingFields /\ ~DateAfter(startDate, endDate)

\* handleCreate up to its first await
HandleCreate ==
    /\ hPc = "idle"
    /\ ~busy
    /\ handler' = "create"
    /\ IF MissingFields
       THEN /\ alerted' = Alert("Missing fields", "Enter location, start date, and end date.")
            /\ hPc' = "done"
            /\ busy' = FALSE
            /\ UNCHANGED <<geoVars, net>>
       ELSE IF ~CreateIsValid
       THEN /\ alerted' = Alert("Validation", "start_date must be before or equal to end_date")
            /\ hPc' = "done"
            /\ busy' = FALSE
            /\ UNCHANGED <<geoVars, net>>
       ELSE /\ busy' = TRUE
            /\ hPc' = "geocoding"
            /\ alerted' = alerted
            /\ StartGeocode(Trim(location))
    /\ cards' = cards
    /\ UNCHANGED <<formVars, storeVars, toolVars, extra>>
    /\ UNCHANGED <<fcVars, wsVars, wfVars>>
    /\ UNCHANGED othersOfRecords

UpdatesOfForm ==
    (IF location # << >> THEN [location_name |-> StrOf(Trim(location))]
     ELSE [f \in {} |-> Null])
    @@ (IF startDate # "" THEN [start_date |-> startDate] ELSE [f \in {} |-> Null])
    @@ (IF endDate # "" THEN [end_date |-> endDate] ELSE [f \in {} |-> Null])

\* handleUpdate up to its first await
HandleUpdate ==
    /\ hPc = "idle"
    /\ ~busy
    /\ handler' = "update"
    /\ IF ~NumberIsFinite(NumberOf(targetId))
       THEN /\ alerted' = Alert("Validation", "Enter a valid numeric id to update")
            /\ hPc' = "done"
            /\ busy' = FALSE
            /\ UNCHANGED <<geoVars, storeVars, net>>
       ELSE IF recomputeOnUpdate /\ MissingFields
       THEN /\ alerted' = Alert("Missing fields",
                                "For recompute, enter location, start and end date.")
            /\ hPc' = "done"
            /\ busy' = FALSE
            /\ UNCHANGED <<geoVars, storeVars, net>>
       ELSE IF recomputeOnUpdate
       THEN /\ busy' = TRUE
            /\ hPc' = "geocoding"
            /\ alerted' = alerted
            /\ StartGeocode(Trim(location))
            /\ UNCHANGED storeVars
       ELSE /\ busy' = TRUE
            /\ hPc' = "storing"
            /\ alerted' = alerted
            /\ SendToStore(UpdateRequest(NumberOf(targetId), UpdatesOfForm, TRUE))
            /\ UNCHANGED geoVars
    /\ cards' = cards
    /\ UNCHANGED <<formVars, toolVars, extra>>
    /\ UNCHANGED <<fcVars, wsVars, wfVars>>
    /\ UNCHANGED othersOfRecords

\* handleList up to its await
HandleList ==
    /\ hPc = "idle"
    /\ ~busy
    /\ handler' = "list"
    /\ busy' = TRUE
    /\ hPc' = "storing"
    /\ SendToStore(ListRequest)
    /\ UNCHANGED <<cards, alerted>>
    /\ UNCHANGED <<formVars, toolVars, extra>>
    /\ UNCHANGED <<geoVars, fcVars, wsVars, wfVars>>
    /\ UNCHANGED othersOfRecords

\* handleDelete up to its await
HandleDelete ==
    /\ hPc = "idle"
    /\ ~busy
    /\ handler' = "delete"
    /\ IF ~NumberIsFinite(NumberOf(targetId))
       THEN /\ alerted' = Alert("Validation", "Enter a valid numeric id to delete")
            /\ hPc' = "done"
            /\ busy' = FALSE
            /\ UNCHANGED <<storeVars, net>>
       ELSE /\ busy' = TRUE
            /\ hPc' = "storing"
            /\ alerted' = alerted
            /\ SendToStore(DeleteRequest(NumberOf(targetId)))
    /\ cards' = cards
    /\ UNCHANGED <<formVars, toolVars, extra>>
    /\ UNCHANGED <<geoVars, fcVars, wsVars, wfVars>>
    /\ UNCHANGED othersOfRecords

CouldNotGeocode == "Couldn't geocode"

\* autoFill from the settling of geocode to its await getWeatherWithForecast
AutoFillAfterGeocode ==
    /\ hPc = "geocoding"
    /\ geoPc \in {"returned", "failed"}
    /\ IF geoPc = "failed"
       THEN /\ HandlerFails(geoError)
            /\ UNCHANGED <<fcVars, wsVars, wfVars, net>>
       ELSE IF Len(geoResult) = 0
       THEN /\ HandlerFails(CouldNotGeocode)
            /\ UNCHANGED <<fcVars, wsVars, wfVars, net>>
       ELSE /\ hPc' = "weather"
            /\ fcDays' = TotalDays(startDate, endDate)
            /\ StartGetWeatherWithForecast
            /\ UNCHANGED <<cards, busy, alerted, handler>>
    /\ UNCHANGED <<formVars, storeVars, toolVars, extra>>
    /\ UNCHANGED geoVars
    /\ UNCHANGED othersOfRecords

NullUnlessFinite(v) == IF NumberIsFinite(v) THEN v ELSE Null

\* entryForDb of autoFill
EntryForDb ==
    LET hit == geoResult[1]
        temps == computeForecastTemperatureStats(ContainerInput(wfResult.forecast))
    IN  [location_name |-> hit.formatted_address,
         location_lat |-> hit.location.lat,
         location_lng |-> hit.location.lng,
         start_date |-> startDate,
         end_date |-> endDate,
         avg_temp_c |-> IF NumberIsFinite(temps.avgTempC) THEN ToFixed2(temps.avgTempC)
                        ELSE Null,
         min_temp_c |-> NullUnlessFinite(temps.minTempC),
         max_temp_c |-> NullUnlessFinite(temps.maxTempC),
         weather_summary |-> [provider |-> Str("google-weather"),
                              current |-> wfResult.current,
                              forecast |-> wfResult.forecast,
                              resolvedName |-> hit.formatted_address]]

\* autoFill from the settling of getWeatherWithForecast to its return, and the
\* handler from there to its await of the store
AutoFillAfterWeather ==
    /\ hPc = "weather"
    /\ wfPc \in {"returned", "failed"}
    /\ IF wfPc = "failed"
       THEN /\ HandlerFails(wfError)
            /\ UNCHANGED <<storeVars, net>>
       ELSE /\ hPc' = "storing"
            /\ SendToStore(IF handler = "create" THEN InsertRequest(EntryForDb, TRUE)
                           ELSE UpdateRequest(NumberOf(targetId), EntryForDb, TRUE))
            /\ UNCHANGED <<cards, busy, alerted, handler>>
    /\ UNCHANGED <<formVars, toolVars, extra>>
    /\ UNCHANGED <<geoVars, fcVars, wsVars, wfVars>>
    /\ UNCHANGED othersOfRecords

\* as CardsAfterStore, with the cards left as they are after a delete
CardsAfterStoreKept ==
    CASE handler = "create" -> <<stResp.data>> \o cards
      [] handler = "list" -> Coalesce(stResp.data, Arr(<< >>)).items
      [] handler = "update" ->
            [i \in 1..Len(cards) |->
                IF Num(cards[i].id) = NumberOf(targetId) THEN stResp.data ELSE cards[i]]
      [] handler = "delete" -> cards

\* the argument of setCards after the store answered without an error
CardsAfterStore ==
    CASE handler = "create" -> <<stResp.data>> \o cards
      [] handler = "list" -> Coalesce(stResp.data, Arr(<< >>)).items
      [] handler = "update" ->
            [i \in 1..Len(cards) |->
                IF Num(cards[i].id) = NumberOf(targetId) THEN stResp.data ELSE cards[i]]
      [] handler = "delete" ->
            SelectSeq(cards, LAMBDA r : Num(r.id) # NumberOf(targetId))

\* the Alert.alert that reports the success; handleList shows none
SuccessAlert ==
    CASE handler = "create" -> Alert("Created", stResp.data.location_name.s)
      [] handler = "list" -> alerted
      [] handler = "update" -> Alert("Updated", stResp.data.location_name.s)
      [] handler = "delete" -> Alert("Deleted", "Record removed")

\* the handler from the answer of the store to its end
HandlerAfterStore ==
    /\ hPc = "storing"
    /\ stPc = "answered"
    /\ IF stResp.error # ""
       THEN HandlerFails(stResp.error)
       ELSE /\ cards' = CardsAfterStore
            /\ alerted' = SuccessAlert
            /\ busy' = FALSE
            /\ hPc' = "done"
            /\ handler' = handler
    /\ UNCHANGED <<formVars, storeVars, toolVars, extra, net>>
    /\ UNCHANGED <<geoVars, fcVars, wsVars, wfVars>>
    /\ UNCHANGED othersOfRecords

\* ------------------------------------------------------ chat route tools
DateOrderError == "start_date must be before or equal to end_date"

\* arguments that pass the tools' input schemas
CreateArgs ==
    {[location_name |-> Str(name), location_lat |-> Ratio(9771, 200),
      location_lng |-> Ratio(47, 20), start_date |-> from, end_date |-> to] :
        name \in {"", "Paris"}, from \in DateStrings, to \in DateStrings}

UpdateArgs ==
    {[id |-> Num(id), updates |-> [start_date |-> from, end_date |-> to]] :
        id \in {1, 3}, from \in DateStrings \ {""}, to \in DateStrings \ {""}}

\* execute of the createWeatherRequest tool, up to its await
ExecuteCreate ==
    IF DateAfter(toolArgs.start_date, toolArgs.end_date)
    THEN /\ toolPc' = "failed"
         /\ toolError' = DateOrderError
         /\ UNCHANGED <<storeVars, net>>
    ELSE /\ toolPc' = "storing"
         /\ toolError' = toolError
         /\ SendToStore(InsertRequest(toolArgs, FALSE))

\* execute of the updateWeatherRequest tool, up to its await
ExecuteUpdate ==
    /\ toolPc' = "storing"
    /\ toolError' = toolError
    /\ SendToStore(UpdateRequest(toolArgs.id, toolArgs.updates, FALSE))

\* the model calls a tool
CallTool ==
    /\ toolPc = "idle"
    /\ IF toolName = "createWeatherRequest" THEN ExecuteCreate ELSE ExecuteUpdate
    /\ UNCHANGED <<toolName, toolArgs, extra>>
    /\ UNCHANGED <<formVars, screenVars>>
    /\ UNCHANGED <<geoVars, fcVars, wsVars, wfVars>>
    /\ UNCHANGED othersOfRecords

\* the tool's execute from the answer of the store to its end
ToolAfterStore ==
    /\ toolPc = "storing"
    /\ stPc = "answered"
    /\ IF stResp.error # ""
       THEN toolPc' = "failed" /\ toolError' = stResp.error
       ELSE toolPc' = "returned" /\ toolError' = toolError
    /\ UNCHANGED <<toolName, toolArgs, extra, net>>
    /\ UNCHANGED <<formVars, screenVars, storeVars>>
    /\ UNCHANGED <<geoVars, fcVars, wsVars, wfVars>>
    /\ UNCHANGED othersOfRecords

\* ------------------------------------------------------------ home screen
\* extra as app.config.js builds it when every environment variable is set
AppConfigExtra ==
    {"router", "eas", "googleMapsApiKey", "supabaseUrl", "supabaseAnonKey",
     "openaiApiKey", "apiUrl"}

\* the module-level check of lib/supabase, which the weatherReqs api imports
StoreClientThrows == ~("SUPABASE_URL" \in extra /\ "SUPABASE_ANON_KEY" \in extra)

\* the same check of src/lib/supabase, which the records screen imports
ScreenClientThrows == ~("supabaseUrl" \in extra /\ "supabaseAnonKey" \in extra)

HomeConfigs == {AppConfigExtra, AppConfigExtra \cup {"GOOGLE_MAPS_API_KEY"}}

\* what the search bar passes to onSearch: text.trim(), when it is not empty;
\* one more letter is typed before each search
NextQuery == [i \in 1..(Len(searches) + 1) |-> "p"]

\* the answers of the geocoder to a search of the home screen
SearchAnswers ==
    {HttpOk(GeocodeBody("OK", Undefined, <<ParisFrance>>)),
     HttpOk(GeocodeBody("OK", Undefined, <<ParisTexas>>)),
     HttpOk(GeocodeBody("ZERO_RESULTS", Undefined, << >>)),
     HttpFailure("403", "Forbidden")}

Rejected(message) == [ok |-> FALSE, message |-> message, hits |-> NoHits]
Fulfilled(hits) == [ok |-> TRUE, message |-> "", hits |-> hits]

\* how the promise of geocode settles for the answer res of its fetch
GeocodeOutcome(res) ==
    IF ~res.ok THEN Rejected(NetworkError(res))
    ELSE IF Get(res.data, "status") # Str("OK")
    THEN Rejected(GeocodeFailureMessage(res.data).s)
    ELSE IF MapThrows(res.data) THEN Rejected(TypeErrorMessage)
    ELSE Fulfilled(ToGeocodeHits(res.data))

\* how the promise of handleSearch settles for that of geocode
HandleSearchOutcome(res) ==
    LET found == GeocodeOutcome(res)
    IN  IF found.ok /\ Len(found.hits) = 0 THEN Rejected(NoResultsError) ELSE found

\* why handleSearch(q) throws before its await, "" if it does not
FailsBeforeFetch(q) ==
    IF Trim(q) = << >> THEN EmptyQueryError
    ELSE IF ~Truthy(GeocodeApiKey) THEN MissingKeyError
    ELSE ""

\* how many searches are in flight
InFlight == Cardinality({i \in 1..Len(searches) : searches[i].pc = "awaiting"})

\* onSearch(q) up to the await of handleSearch(q); when handleSearch throws
\* before its own await, the catch and finally blocks run in the same turn
OnSearch(q) ==
    /\ clPc # "off"
    /\ Len(searches) < MaxSearches
    /\ results' = << >>
    /\ IF FailsBeforeFetch(q) # ""
       THEN /\ searches' = Append(searches, [query |-> q, pc |-> "done",
                                             behind |-> InFlight,
                                             outcome |-> Rejected(FailsBeforeFetch(q))])
            /\ error' = Str(FailsBeforeFetch(q))
            /\ loading' = FALSE
            /\ net' = net
       ELSE /\ searches' = Append(searches, [query |-> q, pc |-> "awaiting",
                                             behind |-> InFlight,
                                             outcome |-> Rejected("")])
            /\ error' = Null
            /\ loading' = TRUE
            /\ net' = Append(net, "geocode")
    /\ UNCHANGED <<pushed, alertShown, selPc, clPc, extra>>
    /\ UNCHANGED <<locVars, fcVars, wsVars, wfVars>>
    /\ UNCHANGED othersOfHome

\* the search bar submits a query
SubmitSearch == OnSearch(NextQuery)

\* the geocoder answers the request of the i-th search, and onSearch runs from
\* its await to its end
SearchSettles(i) ==
    /\ searches[i].pc = "awaiting"
    /\ \E res \in SearchAnswers :
          LET outcome == HandleSearchOutcome(res)
          IN  /\ searches' = [searches EXCEPT ![i] =
                                 [query |-> @.query, pc |-> "done", behind |-> @.behind,
                                  outcome |-> outcome]]
              /\ IF outcome.ok
                 THEN results' = outcome.hits /\ error' = error
                 ELSE results' = results /\ error' = Str(outcome.message)
    /\ loading' = FALSE
    /\ UNCHANGED <<pushed, alertShown, selPc, clPc, extra, net>>
    /\ UNCHANGED <<locVars, fcVars, wsVars, wfVars>>
    /\ UNCHANGED othersOfHome

ASearchSettles == \E i \in 1..Len(searches) : SearchSettles(i)

\* the weather provider answers a lookup made for the home screen
SummaryRespondsToHome ==
    /\ wsPc = "fetching"
    /\ ~AllSettling
    /\ wsResponse' \in {HttpOk(FullConditions), HttpFailure("500", "Internal Server Error")}
    /\ wsPc' = "responded"
    /\ UNCHANGED <<wsResult, wsError, extra, net>>
    /\ UNCHANGED othersOfWs

ForecastRespondsToHome ==
    /\ fcPc = "fetching"
    /\ ~AllSettling
    /\ fcResponse' \in {HttpOk(ForecastBody(<<<<Num(10), Num(5)>>>>)),
                        HttpFailure("500", "Internal Server Error")}
    /\ fcPc' = "responded"
    /\ UNCHANGED <<fcDays, fcResult, fcError, fcStats, extra, net>>
    /\ UNCHANGED othersOfFc

WeatherDisplay(weather) == [pathname |-> "/WeatherDisplay", weather |-> weather]

\* handleSelect(hit) for a card shown, up to its await
HandleSelect ==
    /\ selPc = "idle"
    /\ clPc \in {"idle", "done"}
    /\ wfPc = "idle"
    /\ Len(results) > 0
    /\ selPc' = "weather"
    /\ fcDays' = ForecastDays
    /\ StartGetWeatherWithForecast
    /\ UNCHANGED <<loading, error, results, searches, pushed, alertShown, clPc, extra>>
    /\ UNCHANGED locVars
    /\ UNCHANGED othersOfHome

\* handleSelect from the settling of getWeatherWithForecast to its end
SelectAfterWeather ==
    /\ selPc = "weather"
    /\ wfPc \in {"returned", "failed"}
    /\ IF wfPc = "failed"
       THEN /\ alertShown' = "Could not load weather data. Try again."
            /\ pushed' = pushed
       ELSE /\ pushed' = Append(pushed, WeatherDisplay(wfResult))
            /\ alertShown' = alertShown
    /\ selPc' = "done"
    /\ UNCHANGED <<loading, error, results, searches, clPc, extra, net>>
    /\ UNCHANGED <<locVars, fcVars, wsVars, wfVars>>
    /\ UNCHANGED othersOfHome

PermissionDeniedError == "Permission to access location was denied"
PermissionStatuses == {"granted", "denied", "undetermined"}

\* handleCurrentLocation up to its first await, and getUserLocation up to its
\* await of requestForegroundPermissionsAsync; the button is disabled while
\* loading
HandleCurrentLocation ==
    /\ clPc = "idle"
    /\ selPc # "weather"
    /\ ~loading
    /\ loading' = TRUE
    /\ error' = Null
    /\ clPc' = "locating"
    /\ locPc' = "permission"
    /\ locAsked' = Append(locAsked, "permission")
    /\ UNCHANGED <<results, searches, pushed, alertShown, selPc, extra, net>>
    /\ UNCHANGED <<permission, locResult, locError>>
    /\ UNCHANGED <<fcVars, wsVars, wfVars>>
    /\ UNCHANGED othersOfHome

\* as PermissionAnswers, asking for the position whatever the status is
PermissionAnswersAskingAnyway ==
    /\ locPc = "permission"
    /\ permission' \in PermissionStatuses
    /\ locPc' = "position"
    /\ locAsked' = Append(locAsked, "position")
    /\ UNCHANGED <<locResult, locError>>
    /\ UNCHANGED <<homeVars, extra, net>>
    /\ UNCHANGED <<fcVars, wsVars, wfVars>>
    /\ UNCHANGED othersOfHome

\* the device answers the permission request, and getUserLocation runs to its
\* await of getCurrentPositionAsync or to its throw
PermissionAnswers ==
    /\ locPc = "permission"
    /\ \E answer \in PermissionStatuses :
          /\ permission' = answer
          /\ IF answer # "granted"
             THEN /\ locPc' = "failed"
                  /\ locError' = PermissionDeniedError
                  /\ locAsked' = locAsked
             ELSE /\ locPc' = "position"
                  /\ locError' = locError
                  /\ locAsked' = Append(locAsked, "position")
    /\ locResult' = locResult
    /\ UNCHANGED <<homeVars, extra, net>>
    /\ UNCHANGED <<fcVars, wsVars, wfVars>>
    /\ UNCHANGED othersOfHome

PositionUnavailableError == "Current location is unavailable"

\* the device answers the position request, and getUserLocation runs to its end
PositionAnswers ==
    /\ locPc = "position"
    /\ \/ /\ locPc' = "returned"
          /\ locResult' = [lat |-> Ratio(9771, 200), lng |-> Ratio(47, 20)]
          /\ locError' = locError
       \/ /\ locPc' = "failed"
          /\ locError' = PositionUnavailableError
          /\ locResult' = locResult
    /\ UNCHANGED <<locAsked, permission>>
    /\ UNCHANGED <<homeVars, extra, net>>
    /\ UNCHANGED <<fcVars, wsVars, wfVars>>
    /\ UNCHANGED othersOfHome

CurrentLocationAlert ==
    "Could not fetch weather for current location. Make sure GPS is enabled."

\* catch (err) { alert(...); setError(err.message) } finally { setLoading(false) }
CurrentLocationFails(message) ==
    /\ alertShown' = CurrentLocationAlert
    /\ error' = Str(message)
    /\ loading' = FALSE
    /\ clPc' = "done"
    /\ pushed' = pushed

\* handleCurrentLocation from the settling of getUserLocation to its await of
\* getWeatherWithForecast
CurrentLocationAfterPosition ==
    /\ clPc = "locating"
    /\ locPc \in {"returned", "failed"}
    /\ IF locPc = "failed"
       THEN /\ CurrentLocationFails(locError)
            /\ UNCHANGED <<fcVars, wsVars, wfVars, net>>
       ELSE /\ clPc' = "weather"
            /\ fcDays' = ForecastDays
            /\ StartGetWeatherWithForecast
            /\ UNCHANGED <<loading, error, pushed, alertShown>>
    /\ UNCHANGED <<results, searches, selPc, extra>>
    /\ UNCHANGED locVars
    /\ UNCHANGED othersOfHome

\* handleCurrentLocation from the settling of getWeatherWithForecast to its end
CurrentLocationAfterWeather ==
    /\ clPc = "weather"
    /\ wfPc \in {"returned", "failed"}
    /\ IF wfPc = "failed"
       THEN CurrentLocationFails(wfError)
       ELSE /\ pushed' = Append(pushed, WeatherDisplay(wfResult))
            /\ loading' = FALSE
            /\ clPc' = "done"
            /\ UNCHANGED <<error, alertShown>>
    /\ UNCHANGED <<results, searches, selPc, extra, net>>
    /\ UNCHANGED <<locVars, fcVars, wsVars, wfVars>>
    /\ UNCHANGED othersOfHome

\* ------------------------------------------------------------- chat route
\* the values the model's stream yields: text, a structured part, and a value
\* that is neither a string nor an object
TextDelta == Obj([type |-> Str("text-delta")])
StreamValues == {Str("Hi"), TextDelta, Null}

\* typeof value
TypeOf(value) ==
    CASE value.k = "string" -> "string"
      [] value.k \in {"object", "array", "null"} -> "object"
      [] value.k \in {"number", "NaN", "Infinity", "-Infinity"} -> "number"
      [] value.k = "boolean" -> "boolean"
      [] OTHER -> "undefined"

\* JSON.stringify of an object whose one member, type, is a string
JsonStringify(value) == "{\"type\":\"" \o Get(value, "type").s \o "\"}"

\* whether the loop of POST gives the value a chunk, and the chunk it gives
HasChunk(value) ==
    TypeOf(value) = "string" \/ (Truthy(value) /\ TypeOf(value) = "object")

ChunkOf(value) ==
    IF TypeOf(value) = "string" THEN value.s ELSE JsonStringify(value) \o "\n"

\* what POST finds in the request and in the environment
PostInputs ==
    [body : {"malformed", "no messages", "messages"}, OPENAI_API_KEY : BOOLEAN]

\* POST from the request to the Response it returns
PostChat ==
    /\ postPc = "idle"
    /\ \E in \in PostInputs :
          IF in.body \in {"malformed", "no messages"}
          THEN postStatus' = "400" /\ postPc' = "responded"
          ELSE IF ~in.OPENAI_API_KEY
          THEN postStatus' = "500" /\ postPc' = "responded"
          ELSE postStatus' = "200" /\ postPc' = "streaming"
    /\ UNCHANGED <<fullStream, readCount, byteStream, streamClosed, extra, net>>
    /\ UNCHANGED hookVars
    /\ UNCHANGED othersOfChat

\* one turn of the loop in the start() of the response stream: a value is read
\* and its chunk computed, the end of the model's stream closes the response
\* stream, a failed read puts it in error.  The loop holds no
\* controller.enqueue: the chunk is assigned and dropped.
RouteReads ==
    /\ postPc = "streaming"
    /\ \/ /\ readCount < Len(fullStream)
          /\ LET value == fullStream[readCount + 1]
                 chunk == IF HasChunk(value) THEN <<ChunkOf(value)>> ELSE << >>
             IN  byteStream' = byteStream
          /\ readCount' = readCount + 1
          /\ UNCHANGED <<postPc, streamClosed>>
       \/ /\ readCount = Len(fullStream)
          /\ streamClosed' = TRUE
          /\ postPc' = "closed"
          /\ UNCHANGED <<readCount, byteStream>>
       \/ /\ postPc' = "errored"
          /\ UNCHANGED <<readCount, byteStream, streamClosed>>
    /\ UNCHANGED <<postStatus, fullStream, extra, net>>
    /\ UNCHANGED hookVars
    /\ UNCHANGED othersOfChat

\* ---------------------------------------------------------- useChatStream
\* the bytes of a response: "a" is a one-byte character, "C3" "A9" are the
\* two bytes of one character
HookChunks == {<<"a">>, <<"C3">>, <<"A9", "a">>}

\* decoder.decode(bytes, {stream: true}) with the bytes held back before:
\* the text decoded ("E" for the two-byte character, "?" for U+FFFD) and the
\* bytes held back after
RECURSIVE Decode(_, _, _)
Decode(held, bytes, decoded) ==
    IF bytes = << >> THEN [text |-> decoded, held |-> held]
    ELSE IF held = << >>
    THEN CASE Head(bytes) = "C3" -> Decode(<<"C3">>, Tail(bytes), decoded)
           [] Head(bytes) = "A9" -> Decode(<< >>, Tail(bytes), decoded \o "?")
           [] OTHER -> Decode(<< >>, Tail(bytes), decoded \o Head(bytes))
    ELSE IF Head(bytes) = "A9" THEN Decode(<< >>, Tail(bytes), decoded \o "E")
    ELSE Decode(<< >>, bytes, decoded \o "?")

\* sendMessage up to its await fetch(...)
SendMessage ==
    /\ smPc = "idle"
    /\ isStreaming' = TRUE
    /\ response' = ""
    /\ smPc' = "fetching"
    /\ net' = Append(net, "chat")
    /\ UNCHANGED <<undecoded, arrived, extra>>
    /\ UNCHANGED routeVars
    /\ UNCHANGED othersOfChat

\* the fetch settles: it rejects, or it answers without or with a body
FetchSettles ==
    /\ smPc = "fetching"
    /\ \/ /\ smPc' = "failed"
          /\ isStreaming' = isStreaming
       \/ /\ smPc' = "failed"
          /\ isStreaming' = FALSE
       \/ /\ smPc' = "reading"
          /\ isStreaming' = isStreaming
    /\ UNCHANGED <<response, undecoded, arrived, extra, net>>
    /\ UNCHANGED routeVars
    /\ UNCHANGED othersOfChat

\* one turn of the read loop: a chunk arrives, the stream is done, or the
\* read rejects
ReaderReads ==
    /\ smPc = "reading"
    /\ \/ /\ Len(arrived) < MaxChunks
          /\ \E bytes \in HookChunks :
                LET chunk == Decode(undecoded, bytes, "")
                IN  /\ response' = response \o chunk.text
                    /\ undecoded' = chunk.held
                    /\ arrived' = Append(arrived, bytes)
          /\ UNCHANGED <<smPc, isStreaming>>
       \/ /\ smPc' = "returned"
          /\ isStreaming' = FALSE
          /\ UNCHANGED <<response, undecoded, arrived>>
       \/ /\ smPc' = "failed"
          /\ UNCHANGED <<isStreaming, response, undecoded, arrived>>
    /\ UNCHANGED <<extra, net>>
    /\ UNCHANGED routeVars
    /\ UNCHANGED othersOfChat

Init ==
    /\ extra = {"googleMapsApiKey"}
    /\ net = << >>
    /\ UiIdle
    /\ GeoIdle
    /\ SearchIdle
    /\ AllIdle
    /\ RecordsIdle
    /\ InitAgg(Temps, {"2025-10-24"}, MaxLen)
    /\ FcIdle
    /\ WsIdle

Next == CallCompute

\* direct calls on arrays of ordinary, extreme and non-finite temperatures
Spec == Init /\ [][Next]_vars

\* direct calls on arrays whose days carry dates in any order
DatedTemps == {NaN, Num(10)}

InitDates ==
    /\ extra = {"googleMapsApiKey"}
    /\ net = << >>
    /\ UiIdle
    /\ GeoIdle
    /\ SearchIdle
    /\ AllIdle
    /\ RecordsIdle
    /\ InitAgg(DatedTemps, Dates, MaxLen)
    /\ FcIdle
    /\ WsIdle

SpecDates == InitDates /\ [][Next]_vars

\* direct calls on arrays whose temperatures are all non-finite or extreme
ExtremeTemps == {Undefined, NaN, PosInf, NegInf, Num(-MaxValue), Num(MaxValue)}

InitExtreme ==
    /\ extra = {"googleMapsApiKey"}
    /\ net = << >>
    /\ UiIdle
    /\ GeoIdle
    /\ SearchIdle
    /\ AllIdle
    /\ RecordsIdle
    /\ InitAgg(ExtremeTemps, {"2025-10-24"}, MaxLen)
    /\ FcIdle
    /\ WsIdle

SpecExtreme == InitExtreme /\ [][Next]_vars

\* a forecast fetch followed by the aggregation of its result
InitForecast ==
    /\ extra \in Configs
    /\ net = << >>
    /\ UiIdle
    /\ GeoIdle
    /\ SearchIdle
    /\ AllIdle
    /\ RecordsIdle
    /\ AggIdle
    /\ WsIdle
    /\ fcDays = ForecastDays
    /\ fcPc = "idle"
    /\ fcResponse = NoResponse
    /\ fcResult = << >>
    /\ fcError = ""
    /\ fcStats = NoStats

NextForecast ==
    \/ CallGetDailyForecast
    \/ ForecastResponds
    \/ ResumeGetDailyForecast
    \/ AggregateForecast

SpecForecast == InitForecast /\ [][NextForecast]_vars

\* a forecast fetch for one of several day counts, answered with any entries
InitEntries ==
    /\ extra \in Configs
    /\ net = << >>
    /\ UiIdle
    /\ GeoIdle
    /\ SearchIdle
    /\ AllIdle
    /\ RecordsIdle
    /\ AggIdle
    /\ WsIdle
    /\ fcDays \in 1..MaxDays
    /\ fcPc = "idle"
    /\ fcResponse = NoResponse
    /\ fcResult = << >>
    /\ fcError = ""
    /\ fcStats = NoStats

NextEntries ==
    \/ CallGetDailyForecast
    \/ EntriesRespond
    \/ ResumeGetDailyForecast

SpecEntries == InitEntries /\ [][NextEntries]_vars

\* a current-conditions fetch
InitSummary ==
    /\ extra \in Configs
    /\ net = << >>
    /\ UiIdle
    /\ GeoIdle
    /\ SearchIdle
    /\ AllIdle
    /\ RecordsIdle
    /\ AggIdle
    /\ FcIdle
    /\ wsPc = "idle"
    /\ wsResponse = NoResponse
    /\ wsResult = NoSummary
    /\ wsError = ""

NextSummary ==
    \/ CallGetWeatherSummary
    \/ SummaryResponds
    \/ ResumeGetWeatherSummary

SpecSummary == InitSummary /\ [][NextSummary]_vars

\* a geocode call
InitGeocode ==
    /\ extra \in Configs
    /\ net = << >>
    /\ UiIdle
    /\ AggIdle
    /\ FcIdle
    /\ WsIdle
    /\ SearchIdle
    /\ AllIdle
    /\ RecordsIdle
    /\ geoQuery \in StringsUpTo(MaxQuery)
    /\ geoPc = "idle"
    /\ geoResponse = NoResponse
    /\ geoResult = NoHits
    /\ geoError = ""

NextGeocode ==
    \/ CallGeocode
    \/ GeocodeResponds
    \/ ResumeGeocode

SpecGeocode == InitGeocode /\ [][NextGeocode]_vars

\* a search typed into the search bar, or a handleSearch call of another caller
InitSearch ==
    /\ extra \in Configs
    /\ net = << >>
    /\ UiIdle
    /\ AggIdle
    /\ FcIdle
    /\ WsIdle
    /\ geoQuery = << >>
    /\ geoPc = "idle"
    /\ geoResponse = NoResponse
    /\ geoResult = NoHits
    /\ geoError = ""
    /\ \/ text \in StringsUpTo(MaxQuery) /\ sbPc = "idle" /\ hsQuery = << >>
       \/ text = << >> /\ sbPc = "off" /\ hsQuery \in StringsUpTo(MaxQuery)
    /\ hsPc = "idle"
    /\ hsResult = NoHits
    /\ hsError = ""
    /\ AllIdle
    /\ RecordsIdle

NextSearch ==
    \/ HandleSubmit
    \/ CallHandleSearch
    \/ GeocodeResponds
    \/ ResumeGeocode
    \/ ResumeHandleSearch

SpecSearch == InitSearch /\ [][NextSearch]_vars

\* the first step of each of the three provider calls
InitConfig ==
    /\ extra \in Configs
    /\ net = << >>
    /\ UiIdle
    /\ AggIdle
    /\ SearchIdle
    /\ AllIdle
    /\ RecordsIdle
    /\ fcDays \in 1..MaxDays
    /\ fcPc = "idle"
    /\ fcResponse = NoResponse
    /\ fcResult = << >>
    /\ fcError = ""
    /\ fcStats = NoStats
    /\ wsPc = "idle"
    /\ wsResponse = NoResponse
    /\ wsResult = NoSummary
    /\ wsError = ""
    /\ geoQuery \in StringsUpTo(MaxQuery)
    /\ geoPc = "idle"
    /\ geoResponse = NoResponse
    /\ geoResult = NoHits
    /\ geoError = ""

NextConfig ==
    \/ CallGeocode
    \/ CallGetWeatherSummary
    \/ CallGetDailyForecast

SpecConfig == InitConfig /\ [][NextConfig]_vars

\* a getWeatherWithForecast call
InitAll ==
    /\ extra \in Configs
    /\ net = << >>
    /\ UiIdle
    /\ AggIdle
    /\ GeoIdle
    /\ SearchIdle
    /\ fcDays \in 1..MaxDays
    /\ fcPc = "idle"
    /\ fcResponse = NoResponse
    /\ fcResult = << >>
    /\ fcError = ""
    /\ fcStats = NoStats
    /\ wsPc = "idle"
    /\ wsResponse = NoResponse
    /\ wsResult = NoSummary
    /\ wsError = ""
    /\ wfPc = "idle"
    /\ wfResult = NoWeather
    /\ wfError = ""
    /\ RecordsIdle

NextAll ==
    \/ CallGetWeatherWithForecast
    \/ SummaryRespondsBriefly
    \/ ForecastRespondsBriefly
    \/ ResumeGetWeatherSummary
    \/ ResumeGetDailyForecast
    \/ SettleGetWeatherWithForecast

SpecAll == InitAll /\ [][NextAll]_vars

\* one press of Create, List, Update or Delete on the records screen, or one
\* tool call of the chat route
KeyConfigs == {{"googleMapsApiKey", "GOOGLE_MAPS_API_KEY"}, {"googleMapsApiKey"}}

InitRecords ==
    /\ extra \in KeyConfigs
    /\ net = << >>
    /\ UiIdle
    /\ AggIdle
    /\ SearchIdle
    /\ fcDays = ForecastDays
    /\ fcPc = "idle"
    /\ fcResponse = NoResponse
    /\ fcResult = << >>
    /\ fcError = ""
    /\ fcStats = NoStats
    /\ wsPc = "idle"
    /\ wsResponse = NoResponse
    /\ wsResult = NoSummary
    /\ wsError = ""
    /\ wfPc = "idle"
    /\ wfResult = NoWeather
    /\ wfError = ""
    /\ geoQuery = << >>
    /\ geoPc = "idle"
    /\ geoResponse = NoResponse
    /\ geoResult = NoHits
    /\ geoError = ""
    /\ StoreAtRest
    /\ cards = InitialRows
    /\ busy = FALSE
    /\ alerted = NoAlert
    /\ handler = "none"
    /\ toolError = ""
    /\ \/ /\ hPc = "idle"
          /\ location \in Locations
          /\ startDate \in DateStrings
          /\ endDate \in DateStrings
          /\ targetId \in TargetIds
          /\ recomputeOnUpdate \in BOOLEAN
          /\ toolPc = "off"
          /\ toolName = "none"
          /\ toolArgs = NoArgs
       \/ /\ hPc = "off"
          /\ location = << >>
          /\ startDate = ""
          /\ endDate = ""
          /\ targetId = ""
          /\ recomputeOnUpdate = TRUE
          /\ toolPc = "idle"
          /\ \/ toolName = "createWeatherRequest" /\ toolArgs \in CreateArgs
             \/ toolName = "updateWeatherRequest" /\ toolArgs \in UpdateArgs

NextRecords ==
    \/ HandleCreate
    \/ HandleList
    \/ HandleUpdate
    \/ HandleDelete
    \/ GeocodeRespondsBriefly
    \/ ResumeGeocode
    \/ AutoFillAfterGeocode
    \/ SummaryRespondsBriefly
    \/ ForecastRespondsBriefly
    \/ ResumeGetWeatherSummary
    \/ ResumeGetDailyForecast
    \/ SettleGetWeatherWithForecast
    \/ AutoFillAfterWeather
    \/ StoreResponds
    \/ HandlerAfterStore
    \/ CallTool
    \/ ToolAfterStore

SpecRecords == InitRecords /\ [][NextRecords]_vars

\* one call of each of the three provider functions, the calls overlapping
InitHttp ==
    /\ extra \in Configs \cup KeyConfigs
    /\ net = << >>
    /\ UiIdle
    /\ AggIdle
    /\ SearchIdle
    /\ AllIdle
    /\ RecordsIdle
    /\ fcDays \in 1..MaxDays
    /\ fcPc = "idle"
    /\ fcResponse = NoResponse
    /\ fcResult = << >>
    /\ fcError = ""
    /\ fcStats = NoStats
    /\ wsPc = "idle"
    /\ wsResponse = NoResponse
    /\ wsResult = NoSummary
    /\ wsError = ""
    /\ geoQuery = <<"p">>
    /\ geoPc = "idle"
    /\ geoResponse = NoResponse
    /\ geoResult = NoHits
    /\ geoError = ""

NextHttp ==
    \/ CallGeocode
    \/ GeocodeRespondsBriefly
    \/ ResumeGeocode
    \/ CallGetWeatherSummary
    \/ SummaryRespondsBriefly
    \/ ResumeGetWeatherSummary
    \/ CallGetDailyForecast
    \/ ForecastRespondsBriefly
    \/ ResumeGetDailyForecast

SpecHttp == InitHttp /\ [][NextHttp]_vars

\* the home screen: searches typed one after the other, a card selected, and
\* the current-location button; one weather lookup per run
InitHome ==
    /\ extra \in HomeConfigs
    /\ net = << >>
    /\ AggIdle
    /\ GeoIdle
    /\ SearchIdle
    /\ RecordsIdle
    /\ RouteIdle
    /\ HookIdle
    /\ fcDays = ForecastDays
    /\ fcPc = "idle"
    /\ fcResponse = NoResponse
    /\ fcResult = << >>
    /\ fcError = ""
    /\ fcStats = NoStats
    /\ wsPc = "idle"
    /\ wsResponse = NoResponse
    /\ wsResult = NoSummary
    /\ wsError = ""
    /\ wfPc = "idle"
    /\ wfResult = NoWeather
    /\ wfError = ""
    /\ loading = FALSE
    /\ error = Null
    /\ results = << >>
    /\ searches = << >>
    /\ pushed = << >>
    /\ alertShown = ""
    /\ selPc = "idle"
    /\ clPc = "idle"
    /\ locPc = "idle"
    /\ locAsked = << >>
    /\ permission = ""
    /\ locResult = NoPosition
    /\ locError = ""

NextHome ==
    \/ SubmitSearch
    \/ ASearchSettles
    \/ HandleSelect
    \/ SelectAfterWeather
    \/ HandleCurrentLocation
    \/ PermissionAnswers
    \/ PositionAnswers
    \/ CurrentLocationAfterPosition
    \/ CurrentLocationAfterWeather
    \/ SummaryRespondsToHome
    \/ ForecastRespondsToHome
    \/ ResumeGetWeatherSummary
    \/ ResumeGetDailyForecast
    \/ SettleGetWeatherWithForecast

SpecHome == InitHome /\ [][NextHome]_vars

\* one press of the current-location button
NextLocation ==
    \/ HandleCurrentLocation
    \/ PermissionAnswers
    \/ PositionAnswers
    \/ CurrentLocationAfterPosition
    \/ CurrentLocationAfterWeather
    \/ SummaryRespondsBriefly
    \/ ForecastRespondsBriefly
    \/ ResumeGetWeatherSummary
    \/ ResumeGetDailyForecast
    \/ SettleGetWeatherWithForecast

SpecLocation == InitHome /\ [][NextLocation]_vars

\* one request to the chat route, and one sendMessage call of the hook
InitChat ==
    /\ extra = AppConfigExtra
    /\ net = << >>
    /\ AggIdle
    /\ FcIdle
    /\ WsIdle
    /\ GeoIdle
    /\ SearchIdle
    /\ AllIdle
    /\ RecordsIdle
    /\ HomeIdle
    /\ postPc = "idle"
    /\ postStatus = ""
    /\ \E len \in 0..MaxChunks : fullStream \in [1..len -> StreamValues]
    /\ readCount = 0
    /\ byteStream = << >>
    /\ streamClosed = FALSE
    /\ isStreaming = FALSE
    /\ response = ""
    /\ smPc = "idle"
    /\ undecoded = << >>
    /\ arrived = << >>

NextChat ==
    \/ PostChat
    \/ RouteReads
    \/ SendMessage
    \/ FetchSettles
    \/ ReaderReads

SpecChat == InitChat /\ [][NextChat]_vars

\* ------------------------------------------------- reference definitions
Returned == pc = "returned"

\* exact rational arithmetic on finite numbers, with no overflow
ExactAdd(a, b) == Ratio(a.n * b.d + b.n * a.d, a.d * b.d)
ExactLe(a, b) == a.n * b.d <= b.n * a.d
ExactAbsLe(a, bound) == Abs(a.n) <= bound * a.d
Largest(S) == CHOOSE x \in S : \A y \in S : ExactLe(y, x)
Smallest(S) == CHOOSE x \in S : \A y \in S : ExactLe(x, y)

\* a temperature with every non-finite or absent value replaced by 0
ZeroIfNotFinite(t) == IF t.k = "number" THEN t ELSE Num(0)
Sanitized(f) ==
    [i \in 1..Len(f) |->
        [f[i] EXCEPT !.maxTempC = ZeroIfNotFinite(@), !.minTempC = ZeroIfNotFinite(@)]]

AllFinite(f) ==
    \A i \in 1..Len(f) : f[i].maxTempC.k = "number" /\ f[i].minTempC.k = "number"

\* (maxTempC + minTempC) / 2 of a day with finite temperatures
Midpoint(day) ==
    LET sum == ExactAdd(day.maxTempC, day.minTempC) IN Ratio(sum.n, sum.d * 2)

\* the sum of the midpoints of the first m days
RECURSIVE MidpointSum(_, _)
MidpointSum(f, m) ==
    IF m = 0 THEN Num(0) ELSE ExactAdd(MidpointSum(f, m - 1), Midpoint(f[m]))

\* no sum formed while aggregating f leaves the finite range
NoOverflow(f) ==
    \A i \in 1..Len(f) :
        /\ ExactAbsLe(ExactAdd(f[i].maxTempC, f[i].minTempC), MaxValue)
        /\ ExactAbsLe(MidpointSum(f, i), MaxValue)

MaxTemps(f) == {f[i].maxTempC : i \in 1..Len(f)}
MinTemps(f) == {f[i].minTempC : i \in 1..Len(f)}

\* ------------------------------------------------------------------ claims

\* C1: an empty forecast (a bare empty list, a container with an empty
\* forecast or with none) gives exactly periodDays 0, null bounds and 0 for
\* the three temperatures; otherwise periodDays is the number of days, so
\* periodDays = 0 exactly when the forecast list is empty.
C1_EmptyInputLaw ==
    Returned =>
        /\ input.forecast = << >> =>
              stats = [periodDays |-> 0, periodStartISO |-> Null, periodEndISO |-> Null,
                       minTempC |-> Num(0), maxTempC |-> Num(0), avgTempC |-> Num(0)]
        /\ stats.periodDays = Len(input.forecast)
        /\ (stats.periodDays = 0) <=> (input.forecast = << >>)

C1_Witness ==
    /\ Returned
    /\ ~input.isArray /\ ~input.hasForecast
    /\ stats.periodDays = 0 /\ stats.periodStartISO = Null

\* C2: a day with a non-finite or absent temperature still counts: the
\* result is the result for the list with each such temperature replaced by
\* 0, periodDays is the length of the list, and the max (min) is the largest
\* (smallest) of the substituted daily values.
C2_NonFiniteCountsAsZero ==
    (Returned /\ input.forecast # << >>) =>
        LET f == input.forecast
            g == Sanitized(f)
        IN  /\ stats.periodDays = Len(f)
            /\ stats = computeForecastTemperatureStats(ArrayInput(g))
            /\ stats.maxTempC = Largest(MaxTemps(g))
            /\ stats.minTempC = Smallest(MinTemps(g))
            /\ NoOverflow(g) =>
                  stats.avgTempC = Ratio(MidpointSum(g, Len(g)).n,
                                         MidpointSum(g, Len(g)).d * Len(g))

C2_Witness ==
    /\ Returned
    /\ Len(input.forecast) = 2
    /\ input.forecast[1].maxTempC = Num(10) /\ input.forecast[1].minTempC = NaN
    /\ input.forecast[2].maxTempC = Undefined /\ input.forecast[2].minTempC = Num(20)
    /\ stats.periodDays = 2
    /\ stats.maxTempC = Num(10) /\ stats.minTempC = Num(0)
    /\ stats.avgTempC = Ratio(15, 2)

\* C3: the days {max 20, min 10} and {max NaN, min 5} give maxTempC = 20,
\* minTempC = 0 and avgTempC = 8.75.
ExampleDays(f) ==
    /\ Len(f) = 2
    /\ f[1].maxTempC = Num(20) /\ f[1].minTempC = Num(10)
    /\ f[2].maxTempC = NaN /\ f[2].minTempC = Num(5)

C3_AsClaimed ==
    (Returned /\ ExampleDays(input.forecast)) =>
        /\ stats.maxTempC = Num(20)
        /\ stats.minTempC = Num(0)
        /\ stats.avgTempC = Ratio(875, 100)

\* C3 (amended): the same two days give maxTempC = 20, minTempC = 5 (the
\* NaN maximum of the second day does not touch its minimum of 5) and
\* avgTempC = 8.75.
C3_NonFiniteExample ==
    (Returned /\ ExampleDays(input.forecast)) =>
        /\ stats.maxTempC = Num(20)
        /\ stats.minTempC = Num(5)
        /\ stats.avgTempC = Ratio(875, 100)

C3_Witness ==
    /\ Returned
    /\ ExampleDays(input.forecast)
    /\ stats.periodDays = 2
    /\ stats.avgTempC = Ratio(35, 4)

\* C4: for a non-empty list in any date order, periodStartISO is the dateISO
\* of the first element and periodEndISO that of the last element as given,
\* and the call leaves the input list as it was.
C4_BoundsAsGiven ==
    (Returned /\ input.forecast # << >>) =>
        /\ stats.periodStartISO = input.forecast[1].dateISO
        /\ stats.periodEndISO = input.forecast[Len(input.forecast)].dateISO

C4_OrderPreserved == []C4_BoundsAsGiven /\ [][input' = input]_vars

C4_Witness ==
    /\ Returned
    /\ Len(input.forecast) = 2
    /\ input.forecast[1].dateISO = Str("2025-10-25")
    /\ input.forecast[2].dateISO = Str("2025-10-24")
    /\ stats.periodStartISO = Str("2025-10-25")
    /\ stats.periodEndISO = Str("2025-10-24")

\* what C5 expects of a non-empty list f of days with finite temperatures
ExpectedOfFinite(f) ==
    LET total == MidpointSum(f, Len(f))
    IN  /\ stats.maxTempC = Largest(MaxTemps(f))
        /\ stats.minTempC = Smallest(MinTemps(f))
        /\ stats.avgTempC = Ratio(total.n, total.d * Len(f))
        /\ Len(f) = 1 =>
              /\ stats.minTempC = f[1].minTempC
              /\ stats.maxTempC = f[1].maxTempC
              /\ stats.avgTempC = Midpoint(f[1])
              /\ stats.periodStartISO = f[1].dateISO
              /\ stats.periodEndISO = f[1].dateISO
              /\ (f[1].maxTempC = Num(20) /\ f[1].minTempC = Num(10)) =>
                     stats.avgTempC = Num(15)

C5_AsClaimed ==
    (Returned /\ input.forecast # << >> /\ AllFinite(input.forecast)) =>
        ExpectedOfFinite(input.forecast)

\* C5 (amended): for a non-empty list of finite temperatures, bare or in a
\* container, maxTempC is the largest daily max and minTempC the smallest
\* daily min; avgTempC is the sum of the daily midpoints divided once by the
\* number of days provided no sum formed on the way overflows the finite
\* range, and 0 when one does; a one-day list gives that day's min, max,
\* midpoint (20/10 gives 15) and dateISO for both bounds.
C5_FiniteAggregation ==
    (Returned /\ input.forecast # << >> /\ AllFinite(input.forecast)) =>
        LET f == input.forecast
        IN  /\ stats.maxTempC = Largest(MaxTemps(f))
            /\ stats.minTempC = Smallest(MinTemps(f))
            /\ NoOverflow(f) => ExpectedOfFinite(f)
            /\ ~NoOverflow(f) => stats.avgTempC = Num(0)
            /\ Len(f) = 1 =>
                  /\ stats.periodStartISO = f[1].dateISO
                  /\ stats.periodEndISO = f[1].dateISO

C5_Witness ==
    /\ Returned
    /\ ~input.isArray
    /\ Len(input.forecast) = 2
    /\ AllFinite(input.forecast) /\ NoOverflow(input.forecast)
    /\ input.forecast[1].maxTempC = Num(20) /\ input.forecast[1].minTempC = Num(10)
    /\ input.forecast[2].maxTempC = Num(MaxValue) /\ input.forecast[2].minTempC = Num(-MaxValue)
    /\ stats.maxTempC = Num(MaxValue) /\ stats.minTempC = Num(-MaxValue)
    /\ stats.avgTempC = Ratio(15, 2)

\* the provider answered the forecast request with five days, getDailyForecast
\* normalized them and the result was aggregated
FiveDaysAggregated ==
    /\ fcPc = "aggregated"
    /\ Get(fcResponse.data, "forecastDays").k = "array"
    /\ Len(Get(fcResponse.data, "forecastDays").items) = ForecastDays

DaysOrdered(f) ==
    \A i \in 1..Len(f) :
        /\ AllFinite(f)
        /\ ExactLe(f[i].minTempC, f[i].maxTempC)

C6_AsClaimed ==
    FiveDaysAggregated =>
        /\ fcStats.periodDays = 5
        /\ JsLe(fcStats.minTempC, fcStats.avgTempC)
        /\ JsLe(fcStats.avgTempC, fcStats.maxTempC)

\* C6 (amended): a 5-day list produced by getDailyForecast gives
\* periodDays = 5, and minTempC <= avgTempC <= maxTempC when every day of the
\* list has minTempC <= maxTempC and no sum overflows; a day whose maximum
\* the provider omitted (defaulted to 0) or reported below its minimum can
\* put minTempC above avgTempC or maxTempC.
C6_FiveDayBounds ==
    FiveDaysAggregated =>
        /\ fcStats.periodDays = 5
        /\ Len(fcResult) = 5
        /\ (DaysOrdered(fcResult) /\ NoOverflow(fcResult)) =>
              /\ JsLe(fcStats.minTempC, fcStats.avgTempC)
              /\ JsLe(fcStats.avgTempC, fcStats.maxTempC)

C6_Witness ==
    /\ FiveDaysAggregated
    /\ DaysOrdered(fcResult) /\ NoOverflow(fcResult)
    /\ fcResult[1].maxTempC = Num(10) /\ fcResult[1].minTempC = Num(5)
    /\ fcResult[2].maxTempC = Num(10) /\ fcResult[2].minTempC = Num(0)
    /\ fcStats.periodDays = 5
    /\ fcStats.minTempC = Num(0) /\ fcStats.maxTempC = Num(10)
    /\ JsLt(fcStats.minTempC, fcStats.avgTempC)
    /\ JsLt(fcStats.avgTempC, fcStats.maxTempC)

\* C7: for every input, NaN, +/-Infinity and missing temperatures and
\* overflowing sums included, the three returned temperatures are finite
\* numbers.
C7_ResultsFinite ==
    Returned =>
        /\ NumberIsFinite(stats.minTempC)
        /\ NumberIsFinite(stats.maxTempC)
        /\ NumberIsFinite(stats.avgTempC)

C7_Witness ==
    /\ Returned
    /\ Len(input.forecast) = 2
    /\ input.forecast[1].maxTempC = Num(MaxValue) /\ input.forecast[1].minTempC = Num(MaxValue)
    /\ input.forecast[2].maxTempC = NegInf /\ input.forecast[2].minTempC = Undefined
    /\ stats.avgTempC = Num(0) /\ stats.maxTempC = Num(MaxValue) /\ stats.minTempC = Num(0)

\* the current-conditions call ended after the provider answered
SummaryDone == wsPc \in {"failed", "returned"} /\ wsResponse # NoResponse

\* the body is empty or holds no weatherCondition object
NoConditionObject(data) ==
    \/ data.k # "object"
    \/ "weatherCondition" \notin DOMAIN data.m
    \/ data.m["weatherCondition"].k # "object"

\* C8: a success status whose body is empty or has no weatherCondition
\* object makes getWeatherSummary fail with 'Invalid response from Weather
\* API' and return no summary; a non-success status fails with the
\* different 'Network error: <status> <statusText>' message.
C8_InvalidResponse ==
    /\ (SummaryDone /\ wsResponse.ok /\ NoConditionObject(wsResponse.data)) =>
          /\ wsPc = "failed"
          /\ wsError = "Invalid response from Weather API"
          /\ wsResult = NoSummary
    /\ (SummaryDone /\ ~wsResponse.ok) =>
          /\ wsPc = "failed"
          /\ wsError \in {"Network error: 403 Forbidden",
                          "Network error: 500 Internal Server Error"}
          /\ wsResult = NoSummary

C8_Witness ==
    /\ SummaryDone
    /\ wsResponse.ok
    /\ wsResponse.data = EmptyObj
    /\ wsPc = "failed"
    /\ wsError = "Invalid response from Weather API"

\* the leaves of a returned WeatherSummary
SummaryLeaves(w) ==
    {w.currentTime, w.timeZone, w.isDaytime,
     w.weatherCondition.type, w.weatherCondition.description, w.weatherCondition.iconUrl,
     w.temperatureC, w.feelsLikeC, w.uvIndex,
     w.wind.directionDegrees, w.wind.directionCardinal, w.wind.speedKph, w.wind.gustKph,
     w.thunderstormProbability, w.maxTempC, w.minTempC, w.visibilityKm}

\* C9: for every body that passes the presence check, no field of the
\* returned WeatherSummary is null or undefined.
C9_FullyPopulated ==
    wsPc = "returned" => \A v \in SummaryLeaves(wsResult) : v.k \notin {"undefined", "null"}

\* the value the claim C10 expects for a field read at path: the provider's
\* value, or the default when a link of the path is missing
Expected(data, path, default) ==
    IF Path(data, path).k \in {"undefined", "null"} THEN default ELSE Path(data, path)

OtherFieldsDefaulted(data, w) ==
    /\ w.timeZone = Expected(data, <<"timeZone", "id">>, Str("Unknown"))
    /\ w.isDaytime = (IF Get(data, "isDaytime") = Bool(TRUE) THEN Bool(TRUE) ELSE Bool(FALSE))
    /\ w.weatherCondition.type = Expected(data, <<"weatherCondition", "type">>, Str("UNKNOWN"))
    /\ w.weatherCondition.description =
          Expected(data, <<"weatherCondition", "description", "text">>, Str("Unknown"))
    /\ w.weatherCondition.iconUrl =
          (IF Path(data, <<"weatherCondition", "iconBaseUri">>).k = "string"
           THEN Str(Path(data, <<"weatherCondition", "iconBaseUri">>).s \o ".png")
           ELSE Str(""))
    /\ w.temperatureC = Expected(data, <<"temperature", "degrees">>, Num(0))
    /\ w.feelsLikeC = Expected(data, <<"feelsLikeTemperature", "degrees">>, Num(0))
    /\ w.uvIndex = Expected(data, <<"uvIndex">>, Num(0))
    /\ w.wind.directionDegrees = Expected(data, <<"wind", "direction", "degrees">>, Num(0))
    /\ w.wind.directionCardinal =
          Expected(data, <<"wind", "direction", "cardinal">>, Str("UNKNOWN"))
    /\ w.wind.speedKph = Expected(data, <<"wind", "speed", "value">>, Num(0))
    /\ w.wind.gustKph = Expected(data, <<"wind", "gust", "value">>, Num(0))
    /\ w.thunderstormProbability = Expected(data, <<"thunderstormProbability">>, Num(0))
    /\ w.maxTempC =
          Expected(data, <<"currentConditionsHistory", "maxTemperature", "degrees">>, Num(0))
    /\ w.minTempC =
          Expected(data, <<"currentConditionsHistory", "minTemperature", "degrees">>, Num(0))
    /\ w.visibilityKm = Expected(data, <<"visibility", "distance">>, Num(0))
    /\ Get(data, "wind").k # "object" =>
          w.wind = [directionDegrees |-> Num(0), directionCardinal |-> Str("UNKNOWN"),
                    speedKph |-> Num(0), gustKph |-> Num(0)]

\* a body with weatherCondition was answered with a success status
ConditionAnswered ==
    /\ SummaryDone
    /\ wsResponse.ok
    /\ ~NoConditionObject(wsResponse.data)

\* C10: for every body that contains weatherCondition, whatever other paths
\* are missing, getWeatherSummary returns and every missing field has its
\* default (0, false, 'Unknown'/'UNKNOWN', '' for the icon URL), a string
\* default for currentTime included; a body without wind gives the
\* all-default wind.
C10_DefaultFill ==
    ConditionAnswered =>
        /\ wsPc = "returned"
        /\ OtherFieldsDefaulted(wsResponse.data, wsResult)
        /\ IF Get(wsResponse.data, "currentTime").k \in {"undefined", "null"}
           THEN wsResult.currentTime.k = "string"
           ELSE wsResult.currentTime = Get(wsResponse.data, "currentTime")

\* C10, every field but currentTime: the part of the claim the code keeps
C10_DefaultFillOtherFields ==
    ConditionAnswered =>
        /\ wsPc = "returned"
        /\ OtherFieldsDefaulted(wsResponse.data, wsResult)

\* ------------------------------------------------ getDailyForecast: the list
\* the forecastDays list of the answered body (empty when it has none)
ProviderList ==
    LET l == Get(fcResponse.data, "forecastDays")
    IN  IF l.k = "array" THEN l.items ELSE << >>

ForecastAnswered == fcPc = "returned" /\ fcResponse.ok

\* what the provider put on one entry, read off the entry itself
EntryDate(e) == IF e.k = "object" THEN e.m.interval.m.startTime ELSE Str("")
EntryMax(e) == IF e.k = "object" THEN e.m.maxTemperature.m.degrees ELSE Num(0)
EntryMin(e) == IF e.k = "object" THEN e.m.minTemperature.m.degrees ELSE Num(0)

\* C11: the list getDailyForecast returns has one DailyForecast per entry of
\* the provider's forecastDays, in the provider's order: output i carries the
\* date and the temperatures of entry i, whatever the dates' order and
\* whatever day count was asked for; without forecastDays the list is empty.
C11_OnePerEntryInOrder ==
    ForecastAnswered =>
        /\ Len(fcResult) = Len(ProviderList)
        /\ \A i \in 1..Len(ProviderList) :
              /\ fcResult[i].dateISO = EntryDate(ProviderList[i])
              /\ fcResult[i].maxTempC = EntryMax(ProviderList[i])
              /\ fcResult[i].minTempC = EntryMin(ProviderList[i])

\* more entries than asked for, the later day first, the same day twice
C11_Witness ==
    /\ ForecastAnswered
    /\ Len(fcResult) = fcDays + 1
    /\ fcResult[1].dateISO = Str(DayStart[2])
    /\ fcResult[2].dateISO = Str(DayStart[1])
    /\ fcResult[Len(fcResult)].dateISO = Str(DayStart[1])

\* ---------------------------------------------- getDailyForecast: the blocks
DefaultBlock ==
    [description |-> Str("Unknown"), iconUrl |-> Str(""), uvIndex |-> Num(0),
     precipPercent |-> Num(0), windKph |-> Num(0), windGustKph |-> Num(0),
     windDirCardinal |-> Str("UNKNOWN"), windDirDegrees |-> Num(0),
     cloudCover |-> Undefined, humidity |-> Undefined]

\* the DailyBlock that holds the values of ProviderBlock(text)
PopulatedBlock(label) ==
    [description |-> Str(label),
     iconUrl |-> Str("https://maps.gstatic.com/weather/v1/sunny.png"),
     uvIndex |-> Num(3), precipPercent |-> Num(10), windKph |-> Num(8),
     windGustKph |-> Num(19), windDirCardinal |-> Str("EAST"),
     windDirDegrees |-> Num(90), cloudCover |-> Num(40), humidity |-> Num(55)]

Omitted(e, name) == Get(e, name).k \in {"undefined", "null"}

\* the day's own fields are the provider's
OwnFieldsKept(e, day) ==
    /\ day.dateISO = e.m.interval.m.startTime
    /\ day.displayDate = [year |-> e.m.displayDate.m.year,
                          month |-> e.m.displayDate.m.month,
                          day |-> e.m.displayDate.m.day]
    /\ day.maxTempC = e.m.maxTemperature.m.degrees
    /\ day.minTempC = e.m.minTemperature.m.degrees
    /\ day.sunriseTime = e.m.sunEvents.m.sunriseTime
    /\ day.sunsetTime = e.m.sunEvents.m.sunsetTime

\* C12: the daytime and nighttime blocks of a day are default-filled
\* independently: a block the provider omits is the all-default block, a block
\* it sends keeps its values, the day's own fields keep theirs, and the
\* answered call returns (no error is raised).
C12_BlocksIndependent ==
    (fcPc \in {"returned", "failed"} /\ fcResponse.ok) =>
        /\ fcPc = "returned"
        /\ Len(fcResult) = Len(ProviderList)
        /\ \A i \in 1..Len(ProviderList) :
              LET e == ProviderList[i]
              IN  e.k = "object" =>
                    /\ OwnFieldsKept(e, fcResult[i])
                    /\ fcResult[i].daytime =
                          IF Omitted(e, "daytimeForecast") THEN DefaultBlock
                          ELSE PopulatedBlock("Sunny")
                    /\ fcResult[i].nighttime =
                          IF Omitted(e, "nighttimeForecast") THEN DefaultBlock
                          ELSE PopulatedBlock("Clear")

\* a day with a populated daytime block and no nighttime block, next to a day
\* with a nighttime block only
C12_Witness ==
    /\ ForecastAnswered
    /\ Len(fcResult) >= 2
    /\ Omitted(ProviderList[1], "nighttimeForecast")
    /\ fcResult[1].daytime = PopulatedBlock("Sunny")
    /\ fcResult[1].nighttime = DefaultBlock
    /\ Omitted(ProviderList[2], "daytimeForecast")
    /\ fcResult[2].daytime = DefaultBlock
    /\ fcResult[2].nighttime = PopulatedBlock("Clear")

\* ------------------------------------------------------------------ geocode
GeocodeAnswered == geoPc \in {"returned", "failed"} /\ geoResponse.ok
AnsweredStatus == Get(geoResponse.data, "status")
AnsweredMessage == Get(geoResponse.data, "error_message")
AnsweredResults == Get(geoResponse.data, "results").items

\* C13: a geocoding response whose status is not "OK" makes geocode fail and
\* return no hits; the error message is the provider's error_message when the
\* response has one and the status code otherwise (ZERO_RESULTS without
\* error_message gives "ZERO_RESULTS", OVER_QUERY_LIMIT with error_message
\* "quota" gives "quota").
C13_FailureMessage ==
    (GeocodeAnswered /\ AnsweredStatus # Str("OK")) =>
        /\ geoPc = "failed"
        /\ geoResult = NoHits
        /\ geoError = IF AnsweredMessage = Undefined THEN AnsweredStatus.s
                      ELSE AnsweredMessage.s
        /\ (AnsweredStatus = Str("ZERO_RESULTS") /\ AnsweredMessage = Undefined)
              => geoError = "ZERO_RESULTS"
        /\ (AnsweredStatus = Str("OVER_QUERY_LIMIT") /\ AnsweredMessage = Str("quota"))
              => geoError = "quota"

C13_Witness ==
    /\ GeocodeAnswered
    /\ AnsweredStatus = Str("OVER_QUERY_LIMIT")
    /\ AnsweredMessage = Str("quota")
    /\ geoPc = "failed"
    /\ geoError = "quota"

\* C14: for a response with status "OK" geocode returns one GeocodeHit per
\* entry of results, in the provider's order, each with the entry's
\* formatted_address, place_id and geometry.location lat/lng; nothing is
\* filtered, deduplicated or reordered.
C14_HitsVerbatim ==
    (GeocodeAnswered /\ AnsweredStatus = Str("OK")) =>
        /\ geoPc = "returned"
        /\ Len(geoResult) = Len(AnsweredResults)
        /\ \A i \in 1..Len(AnsweredResults) :
              LET r == AnsweredResults[i].m
              IN  /\ geoResult[i].formatted_address = r.formatted_address
                  /\ geoResult[i].place_id = r.place_id
                  /\ geoResult[i].location.lat = r.geometry.m.location.m.lat
                  /\ geoResult[i].location.lng = r.geometry.m.location.m.lng

\* the same place listed twice
C14_Witness ==
    /\ GeocodeAnswered
    /\ AnsweredStatus = Str("OK")
    /\ Len(geoResult) = MaxHits
    /\ geoResult[1].place_id = geoResult[2].place_id
    /\ geoResult[1].location = [lat |-> Ratio(3366, 100), lng |-> Ratio(-9555, 100)]

\* C15: a geocoding query that yields zero hits is reported as a failure and
\* never as a successful empty list, by geocode itself too.
C15_ZeroHitsIsFailure ==
    geoPc = "returned" => Len(geoResult) > 0

\* C15, the caller's side: handleSearch never returns an empty list
C15_HandleSearchReportsFailure ==
    /\ hsPc = "returned" => Len(hsResult) > 0
    /\ (hsPc \in {"returned", "failed"} /\ geoPc = "returned" /\ Len(geoResult) = 0)
          => (hsPc = "failed" /\ hsError = NoResultsError)

\* ------------------------------------------------------------ blank queries
Issued(kind) == \E i \in 1..Len(net) : net[i] = kind

\* C16: a search whose query is empty or only whitespace never issues a
\* geocoding request: SearchBar does not call onSearch for it, and
\* handleSearch fails with "Search query cannot be empty." before geocode is
\* called.
C16_BlankQueryNeverSent ==
    /\ (sbPc \in {"submitted", "ignored"} /\ Trim(text) = << >>) =>
          /\ sbPc = "ignored"
          /\ hsPc = "idle"
          /\ geoPc = "idle"
          /\ ~Issued("geocode")
    /\ (hsPc \in {"awaiting", "returned", "failed"} /\ Trim(hsQuery) = << >>) =>
          /\ hsPc = "failed"
          /\ hsError = EmptyQueryError
          /\ geoPc = "idle"
          /\ ~Issued("geocode")
    /\ Issued("geocode") => Trim(geoQuery) # << >>

C16_Witness ==
    /\ hsQuery = <<" ", " ">>
    /\ hsPc = "failed"
    /\ hsError = EmptyQueryError
    /\ net = << >>

\* --------------------------------------------------------- missing API key
\* C19: when the API key a function reads is absent from the app
\* configuration, geocode, getWeatherSummary and getDailyForecast each fail
\* with "Missing GOOGLE_MAPS_API_KEY in app config." and issue no request.
C19_MissingKeyFailsFast ==
    /\ (geoPc # "idle" /\ ~Truthy(GeocodeApiKey)) =>
          (geoPc = "failed" /\ geoError = MissingKeyError /\ ~Issued("geocode"))
    /\ (wsPc # "idle" /\ ~Truthy(WeatherApiKey)) =>
          (wsPc = "failed" /\ wsError = MissingKeyError /\ ~Issued("currentConditions"))
    /\ (fcPc # "idle" /\ ~Truthy(WeatherApiKey)) =>
          (fcPc = "failed" /\ fcError = MissingKeyError /\ ~Issued("forecast"))
    /\ extra = {} => net = << >>

\* no key at all: the three calls have failed and nothing was sent
C19_Witness ==
    /\ extra = {}
    /\ geoPc = "failed" /\ geoError = "Missing GOOGLE_MAPS_API_KEY in app config."
    /\ wsPc = "failed" /\ wsError = "Missing GOOGLE_MAPS_API_KEY in app config."
    /\ fcPc = "failed" /\ fcError = "Missing GOOGLE_MAPS_API_KEY in app config."
    /\ net = << >>

\* ---------------------------------------------------- getWeatherWithForecast
AllSettled == wfPc \in {"returned", "failed"}

\* C20: getWeatherWithForecast starts both requests before it awaits either,
\* returns {current, forecast} only when both calls have returned, and fails
\* when either fails, whichever settles first; no result holds one part only.
C20_BothOrNeither ==
    /\ wfPc # "idle" => (wsPc # "idle" /\ fcPc # "idle")
    /\ (wfPc = "awaiting" /\ wsPc = "fetching" /\ fcPc = "fetching")
          => net = <<"currentConditions", "forecast">>
    /\ wfPc = "returned" =>
          /\ wsPc = "returned" /\ fcPc = "returned"
          /\ wfResult = [current |-> wsResult, forecast |-> fcResult]
          /\ wfResult.current = ToWeatherSummary(wsResponse.data)
          /\ Len(wfResult.forecast) = Len(ProviderList)
    /\ wfPc = "failed" =>
          /\ wfResult = NoWeather
          /\ \/ wsPc = "failed" /\ wfError = wsError
             \/ fcPc = "failed" /\ wfError = fcError
    /\ (AllSettled /\ (wsPc = "failed" \/ fcPc = "failed")) => wfPc = "failed"
    /\ wfPc # "returned" => wfResult = NoWeather

\* the forecast failed after the current conditions had arrived
C20_Witness ==
    /\ wfPc = "failed"
    /\ wsPc = "returned"
    /\ fcPc = "failed"
    /\ wfError = "Network error: 500 Internal Server Error"
    /\ wfResult = NoWeather

\* ------------------------------------------------------------------ records
StoreUntouched == store = InitialRows /\ ~Issued("store")

InvalidCreateForm ==
    location = << >> \/ startDate = "" \/ endDate = "" \/ DateAfter(startDate, endDate)

InvalidCreateArgs ==
    \/ toolArgs.location_name = Str("")
    \/ toolArgs.start_date = ""
    \/ toolArgs.end_date = ""
    \/ DateAfter(toolArgs.start_date, toolArgs.end_date)

\* C17, on the records screen: handleCreate rejects a form with an empty
\* field or with a start date after its end date before any request
C17_HandleCreateValidated ==
    (handler = "create" /\ InvalidCreateForm) =>
        /\ hPc = "done"
        /\ alerted.title \in {"Missing fields", "Validation"}
        /\ net = << >>
        /\ store = InitialRows
        /\ cards = InitialRows

\* C17, in the chat route: the tool rejects a start date after the end date
C17_ToolChecksDateOrder ==
    (toolName = "createWeatherRequest" /\ toolPc # "idle"
     /\ DateAfter(toolArgs.start_date, toolArgs.end_date)) =>
        (toolPc = "failed" /\ toolError = DateOrderError /\ StoreUntouched)

\* C17: a create with a start date after its end date, or with an empty
\* location, start date or end date, fails validation before any geocoding,
\* weather or store request is issued and inserts no record, in handleCreate
\* and in the chat tool createWeatherRequest.
C17_CreateValidated ==
    /\ C17_HandleCreateValidated
    /\ (toolName = "createWeatherRequest" /\ toolPc # "idle" /\ InvalidCreateArgs) =>
          (toolPc = "failed" /\ net = << >> /\ store = InitialRows)

\* C18: on every update path (handleUpdate with recompute on or off, the chat
\* tool updateWeatherRequest) an update whose new start date is after its new
\* end date is rejected and nothing is written to the store.
C18_UpdateValidated ==
    /\ (handler = "update" /\ DateAfter(startDate, endDate)) => store = InitialRows
    /\ (toolName = "updateWeatherRequest" /\ toolPc # "idle"
        /\ DateAfter(toolArgs.updates.start_date, toolArgs.updates.end_date))
          => store = InitialRows

\* C18, path by path
C18_RecomputeValidated ==
    (handler = "update" /\ recomputeOnUpdate /\ DateAfter(startDate, endDate))
        => store = InitialRows
C18_PlainUpdateValidated ==
    (handler = "update" /\ ~recomputeOnUpdate /\ DateAfter(startDate, endDate))
        => store = InitialRows
C18_ToolUpdateValidated ==
    (toolName = "updateWeatherRequest" /\ toolPc # "idle"
     /\ DateAfter(toolArgs.updates.start_date, toolArgs.updates.end_date))
        => store = InitialRows

\* C15, the records screen's side: autoFill throws on an empty list of hits
C15_AutoFillReportsFailure ==
    (hPc \in {"weather", "storing", "done"} /\ geoPc = "returned" /\ Len(geoResult) = 0)
        => (hPc = "done" /\ alerted.message = CouldNotGeocode /\ StoreUntouched)

\* ---------------------------------------------------------------------
\* C21: when the provider answers with a non-success HTTP status, geocode,
\* getWeatherSummary and getDailyForecast each fail with "Network error:"
\* followed by the status code and the status text, return nothing parsed
\* from the body, and have issued one request only.
Requests(kind) == Cardinality({i \in 1..Len(net) : net[i] = kind})

Refused(callPc, res) == callPc \in {"failed", "returned"} /\ res \in HttpFailures

StatusAndText(res) == "Network error: " \o res.status \o " " \o res.statusText

C21_HttpFailureNotRetried ==
    /\ Refused(geoPc, geoResponse) =>
          /\ geoPc = "failed"
          /\ geoError = StatusAndText(geoResponse)
          /\ geoResult = NoHits
    /\ Refused(wsPc, wsResponse) =>
          /\ wsPc = "failed"
          /\ wsError = StatusAndText(wsResponse)
          /\ wsResult = NoSummary
    /\ Refused(fcPc, fcResponse) =>
          /\ fcPc = "failed"
          /\ fcError = StatusAndText(fcResponse)
          /\ fcResult = << >>
    /\ \A kind \in {"geocode", "currentConditions", "forecast"} : Requests(kind) <= 1

C21_Witness ==
    /\ Refused(geoPc, geoResponse)
    /\ Refused(wsPc, wsResponse)
    /\ Refused(fcPc, fcResponse)
    /\ Len(net) = 3

\* ---------------------------------------------------------------------
\* C23: whenever the records screen has asked the weather provider for a
\* forecast, the day count it asked for is a whole number from 1 to 10: the
\* number of days from the start date to the end date, both included, no
\* less than 1 and no more than 10.
IsCalendarDate(str) == str \in DOMAIN EpochDay

InclusiveDays(from, to) ==
    IF EpochDay[to] >= EpochDay[from] THEN EpochDay[to] - EpochDay[from] + 1 ELSE 1

Clamped(n) == IF n > 10 THEN 10 ELSE IF n < 1 THEN 1 ELSE n

ForecastRequested == handler \in {"create", "update"} /\ Issued("forecast")

C23_DayCountInRange ==
    ForecastRequested =>
        /\ fcDays \in {Num(n) : n \in 1..10}
        /\ IsCalendarDate(startDate) /\ IsCalendarDate(endDate) =>
              fcDays = Num(Clamped(InclusiveDays(startDate, endDate)))

\* C23 for the date strings that name a calendar day
C23_CalendarDatesInRange ==
    ForecastRequested /\ IsCalendarDate(startDate) /\ IsCalendarDate(endDate) =>
        fcDays = Num(Clamped(InclusiveDays(startDate, endDate)))

C23_ClampedToTen ==
    ForecastRequested /\ handler = "create" /\ fcDays = Num(10)

\* ---------------------------------------------------------------------
\* C24: when handleDelete has ended after the store deleted without an
\* error, neither the table nor the card list holds a record with the id and
\* the other cards are the ones shown before, in their order; when the store
\* answered with an error or the id typed is no number, the card list is the
\* one shown before.
DeleteEnded == handler = "delete" /\ hPc = "done"

DeleteSucceeded == DeleteEnded /\ stPc = "answered" /\ stResp.error = ""

HasId(rows, id) == \E i \in 1..Len(rows) : Num(rows[i].id) = id

C24_DeleteTogether ==
    /\ DeleteSucceeded =>
          /\ ~HasId(store, NumberOf(targetId))
          /\ ~HasId(cards, NumberOf(targetId))
          /\ cards = SelectSeq(InitialRows, LAMBDA r : Num(r.id) # NumberOf(targetId))
    /\ DeleteEnded /\ ~DeleteSucceeded => cards = InitialRows

C24_Witness ==
    /\ DeleteSucceeded
    /\ targetId = "1"
    /\ store = <<StoredOslo>>
    /\ cards = <<StoredOslo>>

\* ---------------------------------------------------------------------
\* C29: busy is true while a handler of the records screen waits for the
\* geocoder, the weather provider or the store, and false when no handler
\* has started or the handler has ended, whether it ended with a success,
\* with a validation alert or with an error; a button starts a handler only
\* while busy is false, which is in no state where a handler waits.
HandlerInFlight == hPc \in {"geocoding", "weather", "storing"}

PermissionRefused == permission \in PermissionStatuses \ {"granted"}

C22_PermissionDenied ==
    PermissionRefused =>
        /\ locPc = "failed"
        /\ locError = PermissionDeniedError
        /\ locAsked = <<"permission">>
        /\ clPc \in {"locating", "done"}
        /\ clPc = "done" => error = Str(PermissionDeniedError)
        /\ net = << >>
        /\ wfPc = "idle"
        /\ pushed = << >>

C22_Witness ==
    /\ permission = "denied"
    /\ clPc = "done"
    /\ error = Str(PermissionDeniedError)
    /\ alertShown = CurrentLocationAlert
    /\ ~loading

\* ---------------------------------------------------------------------
\* C26: once every search submitted on the home screen has settled, the
\* result list and the error message shown are those of the search submitted
\* last: its hits and no error when it found some, no hits and its error
\* message when it failed.
Awaiting(i) == searches[i].pc = "awaiting"

AllSearchesSettled == Len(searches) > 0 /\ \A i \in 1..Len(searches) : ~Awaiting(i)

LatestSearch == searches[Len(searches)].outcome

LatestSearchShown ==
    /\ results = (IF LatestSearch.ok THEN LatestSearch.hits ELSE NoHits)
    /\ error = (IF LatestSearch.ok THEN Null ELSE Str(LatestSearch.message))

C26_LatestSearchShown == clPc = "idle" /\ AllSearchesSettled => LatestSearchShown

\* C26 for searches that do not overlap: each was submitted when no other
\* search was in flight
C26_OneSearchAtATime ==
    /\ clPc = "idle"
    /\ AllSearchesSettled
    /\ \A i \in 1..Len(searches) : searches[i].behind = 0
    => LatestSearchShown

\* ---------------------------------------------------------------------
\* C27: loading is true in every state in which a search or a
\* current-location lookup of the home screen is in flight, and false in
\* every state in which none is.
HomeInFlight ==
    \/ \E i \in 1..Len(searches) : Awaiting(i)
    \/ clPc \in {"locating", "weather"}

C27_LoadingWhileInFlight == loading <=> HomeInFlight

\* C27, the half that holds: loading is false when nothing is in flight
C27_IdleMeansNotLoading == ~HomeInFlight => ~loading

\* ---------------------------------------------------------------------
\* C30: with the extra that app.config.js builds, selecting a hit of a search
\* gets as far as the two weather requests, and does not fail with the
\* missing-key error.
SelectStarted == selPc \in {"weather", "done"}

C30_SelectReachesWeather ==
    extra = AppConfigExtra /\ SelectStarted =>
        /\ Issued("currentConditions")
        /\ Issued("forecast")
        /\ wfError # MissingKeyError

\* C30, the checks one by one: with that extra, the key checks of geocode and
\* of the two weather functions and the check of the store client pass
C30_ConfigChecksPass ==
    extra = AppConfigExtra =>
        /\ Truthy(GeocodeApiKey)
        /\ Truthy(WeatherApiKey)
        /\ ~StoreClientThrows

\* C30 for the checks that read the names app.config.js sets
C30_GeocodeAndScreenClientPass ==
    extra = AppConfigExtra => Truthy(GeocodeApiKey) /\ ~ScreenClientThrows

\* ---------------------------------------------------------------------
\* C25: the chunks on the response stream of the chat route are those of the
\* string and object values read from the model's stream so far, in the order
\* read (a string as it is, an object as one JSON line), and the response
\* stream is closed only when the model's stream has been read to its end.
RECURSIVE ChunksOf(_)
ChunksOf(values) ==
    IF values = << >> THEN << >>
    ELSE (IF HasChunk(Head(values)) THEN <<ChunkOf(Head(values))>> ELSE << >>)
         \o ChunksOf(Tail(values))

ValuesRead == SubSeq(fullStream, 1, readCount)

C25_StreamsEveryValue ==
    /\ byteStream = ChunksOf(ValuesRead)
    /\ streamClosed => readCount = Len(fullStream)

\* C25, the half that holds: the response stream is closed only after the
\* model's stream is done
C25_ClosedOnlyWhenDone == streamClosed => postPc = "closed" /\ readCount = Len(fullStream)

\* ---------------------------------------------------------------------
\* C28: isStreaming is false once a sendMessage call has ended, by returning
\* or by throwing; after a call that returned, response is the text of the
\* chunks that arrived during the call, in their order.
RECURSIVE Flatten(_)
Flatten(chunks) == IF chunks = << >> THEN << >> ELSE Head(chunks) \o Flatten(Tail(chunks))

SendMessageEnded == smPc \in {"returned", "failed"}

C28_NotStreamingWhenEnded ==
    /\ SendMessageEnded => ~isStreaming
    /\ smPc = "returned" => response = Decode(<< >>, Flatten(arrived), "").text

\* C28 for the calls that return, and for the one that finds no body
C28_NotStreamingWhenReturned ==
    /\ smPc = "returned" => ~isStreaming
    /\ smPc = "returned" => response = Decode(<< >>, Flatten(arrived), "").text
    /\ smPc = "failed" /\ ~isStreaming => arrived = << >>

====
